---- MODULE Spec2Model ----
(***************************************************************************)
(* Model of the Eva backend's real-time session engine.                    *)
(*                                                                         *)
(*  Part I   (specification Spec): the WebSocket connection registry       *)
(*           (ConnectionManager) and the websocket_speech handler, one     *)
(*           asyncio task per socket, interleaved at every await that      *)
(*           is followed by a read or write of shared state.               *)
(*  Part II  (specification SpecGemini): GeminiService, the per-key        *)
(*           dialogue-session map, with concurrent callers.                *)
(*  Part III (specification SpecStream): the streaming generator           *)
(*           GeminiService.send_message_stream and its consumer, the       *)
(*           /chat/send/stream endpoint's generate().                      *)
(***************************************************************************)
EXTENDS Integers, Sequences, FiniteSets, TLC

(***************************************************************************)
(* Bounds of the model.                                                    *)
(***************************************************************************)
\* Spec: number of WebSocket objects (connection attempts) ever opened
NumSockets == 2
\* Spec: total number of inbound messages read over all sockets
MaxMsgs == 2
\* SpecSync: number of WebSocket objects ever opened
NumSyncSockets == 3
\* SpecSync: total number of inbound messages read over all sockets
MaxSyncMsgs == 1

Sockets == 1..(IF NumSockets > NumSyncSockets THEN NumSockets
               ELSE NumSyncSockets)
Users == {"u1", "u2"}
Devices == {"d1", "d2"}
SyncDevices == {"d1", "d2", "d3"}

\* Device and user names are interchangeable, so the n-th socket opened
\* takes one of the first n device names and the first socket of SpecSync
\* the first user: every other run is one of these with names swapped.
DeviceOrder == <<"d1", "d2", "d3">>
FirstDevices(n, devs) == {DeviceOrder[i] : i \in 1..(IF n < 3 THEN n ELSE 3)} \cap devs

\* Python's None
None == "None"

(***************************************************************************)
(* Credentials.  A token is absent (None or the empty string), fails JWT   *)
(* decoding, decodes to the id of a user the store no longer has, or       *)
(* decodes to the id of a stored user.                                     *)
(***************************************************************************)
Tokens == {None, "", "bad", "tok_gone", "tok_u1", "tok_u2"}

\* auth_service.decode_access_token: the payload's "sub", or None when
\* jwt.decode raises JWTError
decode_access_token(token) ==
    CASE token = "tok_u1" -> "u1"
      [] token = "tok_u2" -> "u2"
      [] token = "tok_gone" -> "gone"
      [] OTHER -> None

\* auth_service.get_current_user with firestore_service.get_user answering
\* (the stored users are exactly Users): the user's uid, or None
get_current_user(token) ==
    LET sub == decode_access_token(token) IN
    IF sub = None THEN None
    ELSE IF sub \in Users THEN sub ELSE None

\* authenticate_websocket: the uid of the resolved user, or None
authenticate_websocket(token) == get_current_user(token)

\* Python truthiness of the token query parameter: `not token`
TokenMissing(token) == token = None \/ token = ""

(***************************************************************************)
(* ConnectionManager.  active_connections is a dict of dicts; a Python     *)
(* dict keeps its entries in insertion order, which is the order .items()  *)
(* iterates in, so a per-user bucket is the sequence of its entries.       *)
(***************************************************************************)
Entry(d, ws) == [device_id |-> d, websocket |-> ws]

DictHas(bucket, d) == \E i \in 1..Len(bucket) : bucket[i].device_id = d

DictIndex(bucket, d) == CHOOSE i \in 1..Len(bucket) : bucket[i].device_id = d

DictGet(bucket, d) == bucket[DictIndex(bucket, d)].websocket

\* bucket[d] = ws: in place for a key the dict holds, appended otherwise
DictSet(bucket, d, ws) ==
    IF DictHas(bucket, d)
    THEN [bucket EXCEPT ![DictIndex(bucket, d)] = Entry(d, ws)]
    ELSE Append(bucket, Entry(d, ws))

\* del bucket[d]
DictDel(bucket, d) ==
    LET i == DictIndex(bucket, d) IN
    SubSeq(bucket, 1, i - 1) \o SubSeq(bucket, i + 1, Len(bucket))

\* a mutant of connect: registers the handle without looking for the key
connect_append(reg, websocket, user_id, device_id) ==
    LET bucket == IF user_id \in DOMAIN reg THEN reg[user_id] ELSE << >> IN
    [u \in DOMAIN reg \cup {user_id} |->
        IF u = user_id THEN Append(bucket, Entry(device_id, websocket))
        ELSE reg[u]]

\* ConnectionManager.connect after websocket.accept() returned
connect(reg, websocket, user_id, device_id) ==
    LET bucket == IF user_id \in DOMAIN reg THEN reg[user_id] ELSE << >> IN
    [u \in DOMAIN reg \cup {user_id} |->
        IF u = user_id THEN DictSet(bucket, device_id, websocket)
        ELSE reg[u]]

\* a mutant of disconnect: the emptied bucket stays in the registry
disconnect_keeps_bucket(reg, user_id, device_id) ==
    IF user_id \notin DOMAIN reg THEN reg
    ELSE IF DictHas(reg[user_id], device_id)
         THEN [reg EXCEPT ![user_id] = DictDel(reg[user_id], device_id)]
         ELSE reg

\* ConnectionManager.disconnect
disconnect(reg, user_id, device_id) ==
    IF user_id \notin DOMAIN reg THEN reg
    ELSE LET bucket == IF DictHas(reg[user_id], device_id)
                       THEN DictDel(reg[user_id], device_id)
                       ELSE reg[user_id] IN
         IF bucket = << >>
         THEN [u \in DOMAIN reg \ {user_id} |-> reg[u]]
         ELSE [reg EXCEPT ![user_id] = bucket]

\* a mutant of send_personal_message: the device is not looked up and the
\* message goes to every device of the user
send_personal_message_all(reg, user_id, device_id) ==
    IF user_id \in DOMAIN reg
    THEN [i \in 1..Len(reg[user_id]) |-> reg[user_id][i].websocket]
    ELSE << >>

\* ConnectionManager.send_personal_message: the handles send_json is
\* called on, in order
send_personal_message(reg, user_id, device_id) ==
    IF user_id \in DOMAIN reg
    THEN IF DictHas(reg[user_id], device_id)
         THEN <<DictGet(reg[user_id], device_id)>>
         ELSE << >>
    ELSE << >>

RECURSIVE SumLen(_, _)
SumLen(reg, us) ==
    IF us = {} THEN 0
    ELSE LET u == CHOOSE x \in us : TRUE IN
         Len(reg[u]) + SumLen(reg, us \ {u})

\* ConnectionManager.get_connection_count; `if user_id:` is false for None
\* and for the empty string
get_connection_count(reg, user_id) ==
    IF user_id # None /\ user_id # ""
    THEN IF user_id \in DOMAIN reg THEN Len(reg[user_id]) ELSE 0
    ELSE SumLen(reg, DOMAIN reg)

\* the handles registered for (user_id, device_id): a set, empty when absent
Handles(reg, user_id, device_id) ==
    IF user_id \in DOMAIN reg
    THEN {reg[user_id][i].websocket :
            i \in {j \in 1..Len(reg[user_id]) :
                     reg[user_id][j].device_id = device_id}}
    ELSE {}

\* the sockets the registry holds anywhere
Registered(reg) ==
    UNION {{reg[u][i].websocket : i \in 1..Len(reg[u])} : u \in DOMAIN reg}

(***************************************************************************)
(* State.                                                                  *)
(***************************************************************************)
VARIABLES
    \* ConnectionManager.active_connections
    active_connections,
    \* per socket: where its websocket_speech task stands
    pc,
    \* per socket: the handler's parameters and locals
    token, device_id, user_id, data,
    \* per socket: the close frame the handler sent, if any
    closed,
    \* per socket: the dict iterator of a broadcast_to_user in progress
    bc,
    \* per socket: number of inbound messages the handler has read
    nrecv,
    \* per socket: what its handler did on the wire, in order (history)
    trace,
    \* per socket: calls of manager.disconnect by its handler (history)
    disconnect_calls

wsVars == <<active_connections, pc, token, device_id, user_id, data, closed,
            bc, nrecv, trace, disconnect_calls>>

\* inbound JSON messages; payload stands for a non-empty "data" (audio),
\* "text" (synthesize) or "message" (chat) field
Msg(t, p, a, s) ==
    [type |-> t, payload |-> p, include_audio |-> a, sync_devices |-> s]

NoMsg == Msg(None, FALSE, FALSE, FALSE)

\* message_type = data.get("type", "unknown"); a message without the key
\* has type None here
message_type(d) == IF d.type = None THEN "unknown" ELSE d.type

Inbound ==
    {Msg(t, FALSE, FALSE, FALSE) : t \in {"ping", "interrupt", "bogus", None}}
    \cup {Msg(t, p, FALSE, FALSE) : t \in {"audio", "synthesize"}, p \in BOOLEAN}
    \cup {Msg("chat", FALSE, FALSE, FALSE)}
    \cup {Msg("chat", TRUE, a, s) : a \in BOOLEAN, s \in BOOLEAN}

\* how an awaited websocket call ends: it returns, it raises
\* WebSocketDisconnect, or it raises another Exception
Outcomes == {"ok", "disconnect", "error"}

\* an entry of a socket's trace: a message read (ev = "recv") or a message
\* delivered to socket `to` (ev = "send") while handling inbound message k
Ev(e, t, to, k) == [ev |-> e, type |-> t, to |-> to, k |-> k]

NoClose == [code |-> 0, reason |-> None]

\* the dict iterator of broadcast_to_user's for loop: pos = 0 before the
\* loop started, else the index of the next entry; di_used is the dict's
\* size when the iterator was made; stale: the dict it iterates was emptied
\* and dropped from active_connections;
\* active: a broadcast_to_user call of this handler is in progress, with
\* message built for the handler's inbound message number `message`
\* snapshot (history): the dict's entries when the loop was entered
NoIter ==
    [active |-> FALSE, pos |-> 0, di_used |-> 0, stale |-> FALSE,
     message |-> 0, snapshot |-> << >>]

EmptyReg == [u \in {} |-> << >>]

WsInit ==
    /\ active_connections = EmptyReg
    /\ pc = [s \in Sockets |-> "idle"]
    /\ token = [s \in Sockets |-> None]
    /\ device_id = [s \in Sockets |-> None]
    /\ user_id = [s \in Sockets |-> None]
    /\ data = [s \in Sockets |-> NoMsg]
    /\ closed = [s \in Sockets |-> NoClose]
    /\ bc = [s \in Sockets |-> NoIter]
    /\ nrecv = [s \in Sockets |-> 0]
    /\ trace = [s \in Sockets |-> << >>]
    /\ disconnect_calls = [s \in Sockets |-> 0]

RECURSIVE SumRecv(_)
SumRecv(ss) ==
    IF ss = {} THEN 0
    ELSE LET s == CHOOSE x \in ss : TRUE IN nrecv[s] + SumRecv(ss \ {s})

(***************************************************************************)
(* Dict iterators and deletion.  CPython's dict iterator walks the entry   *)
(* array by index and raises RuntimeError when the dict's size differs     *)
(* from the size at its creation; a deleted entry leaves a hole that the   *)
(* walk skips, which here is the index moving down by one.                 *)
(***************************************************************************)
IterAfterDel(reg, it, it_user, u, d) ==
    IF ~it.active \/ it.pos = 0 \/ it.stale \/ it_user # u THEN it
    ELSE IF u \notin DOMAIN reg THEN it
    ELSE IF ~DictHas(reg[u], d) THEN it
    ELSE IF Len(reg[u]) = 1 THEN [it EXCEPT !.stale = TRUE]
    ELSE IF DictIndex(reg[u], d) < it.pos THEN [it EXCEPT !.pos = @ - 1]
    ELSE it

\* index of the first entry at or after pos whose device is not `exclude`,
\* 0 when there is none
NextTarget(bucket, pos, exclude) ==
    LET rest == {i \in pos..Len(bucket) : bucket[i].device_id # exclude} IN
    IF rest = {} THEN 0 ELSE CHOOSE i \in rest : \A j \in rest : i <= j

(***************************************************************************)
(* websocket_speech: how a step of the handler ends.                       *)
(***************************************************************************)
\* the handler's own manager.disconnect(user_id, device_id); bcNow is bc as
\* the step itself leaves it
Unregister(s, bcNow) ==
    /\ active_connections' =
           disconnect(active_connections, user_id[s], device_id[s])
    /\ disconnect_calls' = [disconnect_calls EXCEPT ![s] = @ + 1]
    /\ bc' = [x \in Sockets |->
                IterAfterDel(active_connections, bcNow[x], user_id[x],
                             user_id[s], device_id[s])]

\* a mutant of ExceptDisconnect: the handler ends without unregistering
ExceptDisconnect_forgets(s, bcNow) ==
    /\ pc' = [pc EXCEPT ![s] = "closed"]
    /\ bc' = bcNow
    /\ UNCHANGED <<active_connections, disconnect_calls>>

\* except WebSocketDisconnect: manager.disconnect(user_id, device_id)
ExceptDisconnect(s, bcNow) ==
    /\ pc' = [pc EXCEPT ![s] = "closed"]
    /\ Unregister(s, bcNow)

\* the step of the try block ended with outcome oc: the loop goes on, or
\* one of the two except clauses is entered
Exit(s, oc, bcNow) ==
    CASE oc = "ok" ->
            /\ pc' = [pc EXCEPT ![s] = "receive"]
            /\ bc' = bcNow
            /\ UNCHANGED <<active_connections, disconnect_calls>>
      [] oc = "disconnect" -> ExceptDisconnect(s, bcNow)
      [] OTHER ->
            /\ pc' = [pc EXCEPT ![s] = "except"]
            /\ bc' = bcNow
            /\ UNCHANGED <<active_connections, disconnect_calls>>

\* a message is appended to the sender's trace when its send returned
Sent(s, type, to, k) == Append(trace[s], Ev("send", type, to, k))

(***************************************************************************)
(* websocket_speech, from the request to the receive loop.                 *)
(***************************************************************************)
\* `if not token:` is not taken
CredentialPresent(tok) == ~TokenMissing(tok)

\* a client opens /ws/speech/{device_id}?token=...; without a token the
\* handler closes the socket and returns.  Sockets are numbered in the
\* order they are opened.
OpenOf(s, toks, devs) ==
    /\ pc[s] = "idle"
    /\ IF s = 1 THEN TRUE ELSE pc[s - 1] # "idle"
    /\ \E tok \in toks, d \in devs :
         /\ token' = [token EXCEPT ![s] = tok]
         /\ device_id' = [device_id EXCEPT ![s] = d]
         /\ IF CredentialPresent(tok)
            THEN /\ pc' = [pc EXCEPT ![s] = "authenticating"]
                 /\ UNCHANGED closed
            ELSE /\ pc' = [pc EXCEPT ![s] = "closed"]
                 /\ closed' = [closed EXCEPT ![s] =
                        [code |-> 4001, reason |-> "Authentication required"]]
    /\ UNCHANGED <<active_connections, user_id, data, bc, nrecv, trace,
                   disconnect_calls>>

Open(s) == OpenOf(s, Tokens, FirstDevices(s, Devices))

\* a mutant of Resolved: an unresolved token is let through as a user
Resolved_any(u) == TRUE

\* `if not user_data:` is not taken
Resolved(u) == u # None

\* user_data = await authenticate_websocket(token); the store lookup in it
\* may raise, which ends the handler before anything is registered
Authenticate(s) ==
    /\ pc[s] = "authenticating"
    /\ \/ /\ decode_access_token(token[s]) # None
          /\ pc' = [pc EXCEPT ![s] = "crashed"]
          /\ UNCHANGED <<user_id, closed>>
       \/ LET u == authenticate_websocket(token[s]) IN
          IF Resolved(u)
          THEN /\ user_id' = [user_id EXCEPT ![s] = u]
               /\ pc' = [pc EXCEPT ![s] = "connecting"]
               /\ UNCHANGED closed
          ELSE /\ pc' = [pc EXCEPT ![s] = "closed"]
               /\ closed' = [closed EXCEPT ![s] =
                      [code |-> 4001, reason |-> "Invalid token"]]
               /\ UNCHANGED user_id
    /\ UNCHANGED <<active_connections, token, device_id, data, bc, nrecv,
                   trace, disconnect_calls>>

\* await manager.connect(websocket, user_id, device_id): accept() returns
\* and the handle is registered, or accept() raises
Accept(s) ==
    /\ pc[s] = "connecting"
    /\ \/ /\ active_connections' =
                 connect(active_connections, s, user_id[s], device_id[s])
          /\ pc' = [pc EXCEPT ![s] = "confirm"]
       \/ /\ pc' = [pc EXCEPT ![s] = "crashed"]
          /\ UNCHANGED active_connections
    /\ UNCHANGED <<token, device_id, user_id, data, closed, bc, nrecv, trace,
                   disconnect_calls>>

\* a mutant of SendConfirmation: a failed send is ignored and the receive
\* loop is entered
SendConfirmation_ignores_failure(s) ==
    /\ pc[s] = "confirm"
    /\ \E oc \in Outcomes :
         /\ trace' = [trace EXCEPT ![s] =
                IF oc = "ok" THEN Sent(s, "connected", s, 0) ELSE @]
         /\ Exit(s, "ok", bc)
    /\ UNCHANGED <<token, device_id, user_id, data, closed, nrecv>>

\* await websocket.send_json({"type": "connected", ...})
SendConfirmation(s) ==
    /\ pc[s] = "confirm"
    /\ \E oc \in Outcomes :
         /\ trace' = [trace EXCEPT ![s] =
                IF oc = "ok" THEN Sent(s, "connected", s, 0) ELSE @]
         /\ Exit(s, oc, bc)
    /\ UNCHANGED <<token, device_id, user_id, data, closed, nrecv>>

\* data = await websocket.receive_json(): a message, WebSocketDisconnect,
\* or a frame that is no JSON object
ReceiveOf(s, msgs, max) ==
    /\ pc[s] = "receive"
    /\ \/ /\ SumRecv(Sockets) < max
          /\ \E m \in msgs :
               /\ data' = [data EXCEPT ![s] = m]
               /\ nrecv' = [nrecv EXCEPT ![s] = @ + 1]
               /\ trace' = [trace EXCEPT ![s] =
                      Append(@, Ev("recv", m.type, s, nrecv[s] + 1))]
          /\ pc' = [pc EXCEPT ![s] = "dispatch"]
          /\ UNCHANGED <<active_connections, bc, disconnect_calls>>
       \/ /\ \E oc \in {"disconnect", "error"} : Exit(s, oc, bc)
          /\ UNCHANGED <<data, nrecv, trace>>
    /\ UNCHANGED <<token, device_id, user_id, closed>>

Receive(s) == ReceiveOf(s, Inbound, MaxMsgs)

\* one send_json to the handler's own socket as the whole answer; data is
\* dead once the message is dispatched
Reply(s, type) ==
    /\ \E oc \in Outcomes :
         /\ trace' = [trace EXCEPT ![s] =
                IF oc = "ok" THEN Sent(s, type, s, nrecv[s]) ELSE @]
         /\ Exit(s, oc, bc)
    /\ data' = [data EXCEPT ![s] = NoMsg]
    /\ UNCHANGED <<token, device_id, user_id, closed, nrecv>>

\* a mutant of HandlePing: the keepalive is not answered
HandlePing_silent(s) ==
    /\ pc[s] = "dispatch" /\ data[s].type = "ping"
    /\ pc' = [pc EXCEPT ![s] = "receive"]
    /\ data' = [data EXCEPT ![s] = NoMsg]
    /\ UNCHANGED <<active_connections, token, device_id, user_id, closed, bc,
                   nrecv, trace, disconnect_calls>>

HandlePing(s) ==
    /\ pc[s] = "dispatch" /\ data[s].type = "ping"
    /\ Reply(s, "pong")

HandleInterrupt(s) ==
    /\ pc[s] = "dispatch" /\ data[s].type = "interrupt"
    /\ Reply(s, "interrupted")

\* the types the receive loop has a branch for
KnownTypes == {"ping", "audio", "synthesize", "chat", "interrupt"}

\* a mutant of HandleUnknown: the error message is sent and the handler
\* ends the connection
HandleUnknown_fatal(s) ==
    /\ pc[s] = "dispatch"
    /\ message_type(data[s]) \notin KnownTypes
    /\ trace' = [trace EXCEPT ![s] = Sent(s, "error", s, nrecv[s])]
    /\ ExceptDisconnect(s, bc)
    /\ data' = [data EXCEPT ![s] = NoMsg]
    /\ UNCHANGED <<token, device_id, user_id, closed, nrecv>>

\* the else branch of the receive loop
HandleUnknown(s) ==
    /\ pc[s] = "dispatch"
    /\ message_type(data[s]) \notin KnownTypes
    /\ Reply(s, "error")

(***************************************************************************)
(* conversation_service.analyze_intent, the intent classifier.  A text is  *)
(* the sequence of its words; trimming is what splitting into words does   *)
(* and case folding is done word by word.  The three rule sets are tried   *)
(* in order and the first that matches decides.                            *)
(***************************************************************************)
\* longest text classified, in words
MaxWords == 3

Vocabulary == {"ok", "OK", "show", "stop", "tasks"}

\* str.lower() of a word
lower(word) ==
    CASE word = "OK" -> "ok"
      [] OTHER -> word

\* the text trimmed and case-folded
normalize(text) == [i \in DOMAIN text |-> lower(text[i])]

Texts == UNION {[1..n -> Vocabulary] : n \in 0..MaxWords}

AcknowledgmentPhrases ==
    {<<"okay">>, <<"ok">>, <<"yeah">>, <<"yes">>, <<"no">>, <<"got", "it">>,
     <<"sure">>}

CommandVerbs == {"set", "create", "add", "delete", "show", "list"}

InterruptionPhrases ==
    {<<"stop">>, <<"wait">>, <<"hold", "on">>, <<"pause">>, <<"cancel">>,
     <<"never", "mind">>}

\* the phrase occurs in the words, as consecutive words
Contains(words, phrase) ==
    \E i \in 1..Len(words) :
        /\ i + Len(phrase) - 1 <= Len(words)
        /\ SubSeq(words, i, i + Len(phrase) - 1) = phrase

\* the rule sets: an acknowledgment phrase occurs in the text
matches_acknowledgment(words) ==
    \E phrase \in AcknowledgmentPhrases : Contains(words, phrase)

\* the text is led by a command verb that is followed by an object
matches_command(words) == Len(words) >= 2 /\ words[1] \in CommandVerbs

\* an interruption phrase occurs in the text
matches_interruption(words) ==
    \E phrase \in InterruptionPhrases : Contains(words, phrase)

\* confidence in percent: high for a text that is a phrase of the rule
\* set, lower for one that only matches
confidence(words, phrases) == IF words \in phrases THEN 90 ELSE 70

\* a mutant of IntentResult: the command flag is set for every type but
\* conversation
IntentResult_command_flag(type, percent) ==
    [type |-> type,
     is_acknowledgment |-> type = "acknowledgment",
     is_command |-> type # "conversation",
     is_interruption |-> type = "interruption",
     confidence |-> percent]

\* the dict returned by analyze_intent, the fields of IntentAnalysis
IntentResult(type, percent) ==
    [type |-> type,
     is_acknowledgment |-> type = "acknowledgment",
     is_command |-> type = "command",
     is_interruption |-> type = "interruption",
     confidence |-> percent]

\* a mutant of analyze_intent: the command rules are tried first
analyze_intent_command_first(text) ==
    LET words == normalize(text) IN
    IF matches_command(words) THEN IntentResult("command", 70)
    ELSE IF matches_acknowledgment(words)
    THEN IntentResult("acknowledgment",
                      confidence(words, AcknowledgmentPhrases))
    ELSE IF matches_interruption(words)
    THEN IntentResult("interruption", confidence(words, InterruptionPhrases))
    ELSE IntentResult("conversation", 50)

\* ConversationService.analyze_intent
analyze_intent(text) ==
    LET words == normalize(text) IN
    IF matches_acknowledgment(words)
    THEN IntentResult("acknowledgment",
                      confidence(words, AcknowledgmentPhrases))
    ELSE IF matches_command(words) THEN IntentResult("command", 70)
    ELSE IF matches_interruption(words)
    THEN IntentResult("interruption", confidence(words, InterruptionPhrases))
    ELSE IntentResult("conversation", 50)

(***************************************************************************)
(* handle_audio_message, handle_synthesize_message and the part of         *)
(* handle_chat_message before the broadcast share one shape: a try block   *)
(* that sends one message unless something raises first, and an except     *)
(* clause that sends an error message.  body is the message the try block  *)
(* gets to send, or "raise".                                               *)
(***************************************************************************)
\* a mutant of TryExceptOf: there is no except clause, and what is raised
\* in the try block leaves the handler
TryExceptOf_propagates(s, body, o1, o2) ==
    LET first == body # "raise" /\ o1 = "ok" IN
    /\ trace' = [trace EXCEPT ![s] =
           IF first THEN Sent(s, body, s, nrecv[s]) ELSE @]
    /\ Exit(s, IF first THEN "ok" ELSE IF body = "raise" THEN "error" ELSE o1,
            bc)
    /\ data' = [data EXCEPT ![s] = NoMsg]
    /\ UNCHANGED <<token, device_id, user_id, closed, nrecv>>

\* o1 is how the send of the try block ends, o2 how the send of the except
\* clause ends
TryExceptOf(s, body, o1, o2) ==
    LET first == body # "raise" /\ o1 = "ok" IN
    /\ trace' = [trace EXCEPT ![s] =
           IF first THEN Sent(s, body, s, nrecv[s])
           ELSE IF o2 = "ok" THEN Sent(s, "error", s, nrecv[s]) ELSE @]
    /\ Exit(s, IF first \/ o2 = "ok" THEN "ok" ELSE o2, bc)
    /\ data' = [data EXCEPT ![s] = NoMsg]
    /\ UNCHANGED <<token, device_id, user_id, closed, nrecv>>

TryExcept(s, body) ==
    \E o1 \in Outcomes, o2 \in Outcomes : TryExceptOf(s, body, o1, o2)

\* the send_json calls of the try block and of the except clause, in order:
\* the type of the message and how the call ended
send_json_calls(body, o1, o2) ==
    (IF body = "raise" THEN << >> ELSE <<[type |-> body, outcome |-> o1]>>)
    \o (IF body # "raise" /\ o1 = "ok" THEN << >>
        ELSE <<[type |-> "error", outcome |-> o2]>>)

\* the texts stt_service.transcribe returns
Transcripts == {<<"OK">>, <<"show", "tasks">>, <<"tasks">>}

\* what the try block of handle_audio_message comes to: no audio data, a
\* b64decode that raises, a transcribe that raises, a result with an
\* "error" key, an analyze_intent that raises, or a transcription
AudioResults(payload) ==
    IF ~payload THEN {[cause |-> "missing", text |-> << >>]}
    ELSE {[cause |-> c, text |-> << >>] :
             c \in {"decode", "exception", "error_result", "intent"}}
         \cup {[cause |-> "none", text |-> x] : x \in Transcripts}

\* the message handle_audio_message gives to send_json in its try block
audio_message(r) ==
    CASE r.cause \in {"missing", "error_result"} ->
            [type |-> "error", text |-> << >>, intent |-> None]
      [] r.cause = "none" ->
            [type |-> "transcription", text |-> r.text,
             intent |-> analyze_intent(r.text).type]
      [] OTHER -> [type |-> "raise", text |-> << >>, intent |-> None]

HandleAudio(s) ==
    /\ pc[s] = "dispatch" /\ data[s].type = "audio"
    /\ \E r \in AudioResults(data[s].payload) :
         TryExcept(s, audio_message(r).type)

\* what the try block of handle_synthesize_message comes to: no text, a
\* get_engine that raises ValueError, a synthesize that raises, a result
\* with an "error" key, or audio
SynthesisCauses(payload) ==
    IF ~payload THEN {"missing"}
    ELSE {"engine", "exception", "error_result", "none"}

\* a mutant of synthesize_message: the result is not tested for "error"
synthesize_message_unchecked(cause) ==
    CASE cause = "missing" -> "error"
      [] cause \in {"none", "error_result"} -> "audio"
      [] OTHER -> "raise"

\* the type of the message handle_synthesize_message gives to send_json in
\* its try block
synthesize_message(cause) ==
    CASE cause \in {"missing", "error_result"} -> "error"
      [] cause = "none" -> "audio"
      [] OTHER -> "raise"

HandleSynthesize(s) ==
    /\ pc[s] = "dispatch" /\ data[s].type = "synthesize"
    /\ \E cause \in SynthesisCauses(data[s].payload) :
         TryExcept(s, synthesize_message(cause))

(***************************************************************************)
(* handle_chat_message and ConnectionManager.broadcast_to_user.            *)
(***************************************************************************)
\* a mutant of AfterResponse: the broadcast is started but not awaited
AfterResponse_detached(s) ==
    /\ pc' = [pc EXCEPT ![s] = "receive"]
    /\ bc' = [bc EXCEPT ![s] = [NoIter EXCEPT !.active = TRUE,
                                                !.message = nrecv[s]]]
    /\ UNCHANGED <<active_connections, disconnect_calls>>

\* the response was sent and data["sync_devices"] is set: the handler
\* awaits manager.broadcast_to_user(message, user_id, exclude_device)
AfterResponse(s) ==
    /\ pc' = [pc EXCEPT ![s] = "sync"]
    /\ bc' = [bc EXCEPT ![s] = [NoIter EXCEPT !.active = TRUE,
                                                !.message = nrecv[s]]]
    /\ UNCHANGED <<active_connections, disconnect_calls>>

\* a mutant of SyncRequested: every chat message is broadcast
SyncRequested_always(d) == TRUE

\* `if data.get("sync_devices", False):`
SyncRequested(d) == d.sync_devices

\* handle_chat_message up to and including the send of the response:
\* chat is how conversation_service.chat ended, tts how the synthesis did
HandleChat(s) ==
    /\ pc[s] = "dispatch" /\ data[s].type = "chat"
    /\ IF ~data[s].payload THEN TryExcept(s, "error")
       ELSE \E chat \in {"success", "failure", "raise"},
               tts \in {"audio", "error", "raise"} :
              LET raised == \/ chat = "raise"
                            \/ /\ data[s].include_audio
                               /\ chat = "success"
                               /\ tts = "raise" IN
              IF raised THEN TryExcept(s, "raise")
              ELSE \/ TryExcept(s, "response") /\ ~SyncRequested(data[s])
                   \/ /\ SyncRequested(data[s])
                      /\ \E o1 \in Outcomes, o2 \in Outcomes :
                           IF o1 = "ok"
                           THEN /\ trace' = [trace EXCEPT ![s] =
                                       Sent(s, "response", s, nrecv[s])]
                                /\ AfterResponse(s)
                           ELSE /\ trace' = [trace EXCEPT ![s] =
                                       IF o2 = "ok"
                                       THEN Sent(s, "error", s, nrecv[s])
                                       ELSE @]
                                /\ Exit(s, o2, bc)
                      /\ data' = [data EXCEPT ![s] = NoMsg]
                      /\ UNCHANGED <<token, device_id, user_id, closed, nrecv>>

\* a mutant of Target: the originating device is not left out
Target_all(bucket, pos, exclude_device) == NextTarget(bucket, pos, None)

\* `if device_id != exclude_device` over the entries from pos on
Target(bucket, pos, exclude_device) == NextTarget(bucket, pos, exclude_device)

\* the except clause of handle_chat_message, entered from the broadcast
ChatFailed(s) ==
    \E o2 \in Outcomes :
        /\ trace' = [trace EXCEPT ![s] =
               IF o2 = "ok" THEN Sent(s, "error", s, bc[s].message) ELSE @]
        /\ Exit(s, o2, [bc EXCEPT ![s] = NoIter])

\* broadcast_to_user from one suspension to the next: the loop is entered
\* or resumed, moves to the next device that is not excluded and sends to
\* it; or the loop ends; or the iterator or the send raises
Broadcast(s) ==
    /\ bc[s].active
    /\ LET u == user_id[s]
           present == u \in DOMAIN active_connections
           it == IF bc[s].pos = 0 /\ present
                 THEN [bc[s] EXCEPT !.pos = 1,
                                    !.di_used = Len(active_connections[u]),
                                    !.snapshot = active_connections[u]]
                 ELSE bc[s]
       IN
       IF it.pos = 0
       THEN \* `if user_id in self.active_connections` is false
            /\ Exit(s, "ok", [bc EXCEPT ![s] = NoIter])
            /\ UNCHANGED trace
       ELSE IF it.stale \/ ~present
                 \/ Len(active_connections[u]) # it.di_used
       THEN \* RuntimeError: dictionary changed size during iteration
            ChatFailed(s)
       ELSE LET bucket == active_connections[u]
                nxt == Target(bucket, it.pos, device_id[s]) IN
            IF nxt = 0
            THEN /\ Exit(s, "ok", [bc EXCEPT ![s] = NoIter])
                 /\ UNCHANGED trace
            ELSE \/ /\ trace' = [trace EXCEPT ![s] =
                           Sent(s, "sync", bucket[nxt].websocket, it.message)]
                    /\ bc' = [bc EXCEPT ![s] = [it EXCEPT !.pos = nxt + 1]]
                    /\ UNCHANGED <<active_connections, pc, disconnect_calls>>
                 \/ ChatFailed(s)
    /\ UNCHANGED <<token, device_id, user_id, data, closed, nrecv>>

\* except Exception: the handler tries to send an error message, whatever
\* comes of it, and unregisters
HandleException(s) ==
    /\ pc[s] = "except"
    /\ \E oc \in Outcomes :
         trace' = [trace EXCEPT ![s] =
             IF oc = "ok" THEN Sent(s, "error", s, nrecv[s]) ELSE @]
    /\ pc' = [pc EXCEPT ![s] = "closed"]
    /\ Unregister(s, bc)
    /\ UNCHANGED <<token, device_id, user_id, data, closed, nrecv>>

(***************************************************************************)
(* Part II and III: GeminiService and the /chat/send/stream generator.     *)
(* Each call is one asyncio task; calls interleave at their awaits.        *)
(***************************************************************************)
\* number of concurrent calls into the service
NumCalls == 3
\* number of chunks the engine's streaming response may deliver
MaxChunks == 2
\* number of the calls that may be streaming calls
MaxStreams == 1

Calls == 1..NumCalls
ConvIds == {None, "c1"}
\* chunk.text of an upstream chunk: empty or not
ChunkTexts == {"", "a"}

\* the text send_message returns from its except clause
SendFallback ==
    "I'm sorry, I encountered an issue processing your request. Please try again."

\* the chunk send_message_stream yields from its except clause
StreamFallback == "I'm sorry, I encountered an issue. Please try again."

\* session_key = f"{user_id}:{conversation_id or 'default'}"
session_key(uid, conversation_id) ==
    uid \o ":" \o (IF conversation_id = None \/ conversation_id = ""
                   THEN "default" ELSE conversation_id)

\* f"conv_{uuid.uuid4().hex[:12]}" of the request that is call c
fresh_conversation_id(c) == "conv_" \o ToString(c)

FreshIds == {fresh_conversation_id(c) : c \in Calls}

\* conversation_id = request.conversation_id or f"conv_{...}"
endpoint_conversation_id(requested, c) ==
    IF requested = None \/ requested = "" THEN fresh_conversation_id(c)
    ELSE requested

Keys == {session_key(u, c) : u \in Users, c \in ConvIds \cup FreshIds}

VARIABLES
    \* GeminiService._chat_sessions: session_key -> chat session object
    chat_sessions,
    \* per chat session object: its history, as the calls whose turn it holds
    history,
    \* the next chat session object start_chat() makes
    next_sid,
    \* per call: operation, arguments, position and locals
    call,
    \* per session object: the key and reset count it was made under (history)
    made,
    \* per key: number of clear_conversation calls so far (history)
    epoch

gemVars == <<chat_sessions, history, next_sid, call, made, epoch>>

NoCall ==
    [op |-> "idle", user_id |-> None, conversation_id |-> None, pc |-> "idle",
     chat |-> 0, ep |-> 0, seen |-> << >>, result |-> None, failed |-> FALSE,
     got |-> << >>, out |-> << >>, sse |-> << >>, saved |-> FALSE,
     full_response |-> "", content |-> None,
     endpoint |-> None, request_conversation_id |-> None]

NoMade == [key |-> None, ep |-> 0]

GemInit ==
    /\ chat_sessions = EmptyReg
    /\ history = [sid \in Calls |-> << >>]
    /\ next_sid = 1
    /\ call = [c \in Calls |-> NoCall]
    /\ made = [sid \in Calls |-> NoMade]
    /\ epoch = [k \in Keys |-> 0]

KeyOf(c) == session_key(call[c].user_id, call[c].conversation_id)

\* a mutant of get_or_create_chat: a session is started on every lookup
get_or_create_chat_always(sessions, nxt, key) ==
    [sessions |-> [k \in DOMAIN sessions \cup {key} |->
                      IF k = key THEN nxt ELSE sessions[k]],
     chat |-> nxt, created |-> TRUE]

\* GeminiService._get_or_create_chat: the session map after the call, the
\* session returned, and whether start_chat(history=[]) was called
get_or_create_chat(sessions, nxt, key) ==
    IF key \notin DOMAIN sessions
    THEN [sessions |-> [k \in DOMAIN sessions \cup {key} |->
                           IF k = key THEN nxt ELSE sessions[k]],
          chat |-> nxt, created |-> TRUE]
    ELSE [sessions |-> sessions, chat |-> sessions[key], created |-> FALSE]

\* a mutant of clear_conversation: the session is left in the map
clear_conversation_keeps(sessions, uid, conversation_id) == sessions

\* a mutant of clear_conversation: every session of the user is removed
clear_conversation_of_user(sessions, uid, conversation_id) ==
    [k \in {x \in DOMAIN sessions :
               \A cid \in ConvIds \cup FreshIds : x # session_key(uid, cid)}
        |-> sessions[k]]

\* GeminiService.clear_conversation
clear_conversation(sessions, uid, conversation_id) ==
    LET key == session_key(uid, conversation_id) IN
    IF key \in DOMAIN sessions
    THEN [k \in DOMAIN sessions \ {key} |-> sessions[k]]
    ELSE sessions

\* a mutant of on_send_error: a failed turn discards the session
on_send_error_drops(sessions, key) ==
    [k \in DOMAIN sessions \ {key} |-> sessions[k]]

\* the except clause of send_message and of send_message_stream leaves
\* _chat_sessions as it is
on_send_error(sessions, key) == sessions

\* a call starts: calls are numbered in the order they start
Starts(c) ==
    /\ call[c].pc = "idle"
    /\ IF c = 1 THEN TRUE ELSE call[c - 1].pc # "idle"

\* chat = self._get_or_create_chat(user_id, conversation_id), then the
\* call of chat.send_message_async, which reads the session's history and
\* suspends
LookupFor(c, op, u, cid, endpoint, requested) ==
    LET key == session_key(u, cid)
        r == get_or_create_chat(chat_sessions, next_sid, key) IN
    /\ chat_sessions' = r.sessions
    /\ next_sid' = IF r.created THEN next_sid + 1 ELSE next_sid
    /\ made' = IF r.created
               THEN [made EXCEPT ![r.chat] = [key |-> key, ep |-> epoch[key]]]
               ELSE made
    /\ call' = [call EXCEPT ![c] =
           [NoCall EXCEPT !.op = op, !.user_id = u, !.conversation_id = cid,
                          !.pc = "await", !.chat = r.chat, !.ep = epoch[key],
                          !.seen = history[r.chat],
                          !.endpoint = endpoint,
                          !.request_conversation_id = requested]]
    /\ UNCHANGED <<history, epoch>>

\* a call of send_message or send_message_stream
Lookup(c, op, u, cid) == LookupFor(c, op, u, cid, None, None)

\* send_message up to its await
SendStart(c) ==
    /\ Starts(c)
    /\ \E u \in Users, cid \in ConvIds : Lookup(c, "send_message", u, cid)

\* send_message from its await on: the engine answers and response.text
\* is returned; or the engine raises; or the engine answers (the session
\* has recorded the turn) and response.text raises
SendFinish(c) ==
    /\ call[c].op = "send_message" /\ call[c].pc = "await"
    /\ \E how \in {"ok", "engine_error", "text_error"} :
         /\ history' = IF how = "engine_error" THEN history
                       ELSE [history EXCEPT ![call[c].chat] = Append(@, c)]
         /\ IF how = "ok"
            THEN /\ call' = [call EXCEPT ![c].pc = "done", ![c].result = "text"]
                 /\ UNCHANGED chat_sessions
            ELSE /\ call' = [call EXCEPT ![c].pc = "done", ![c].failed = TRUE,
                                         ![c].result = SendFallback]
                 /\ chat_sessions' = on_send_error(chat_sessions, KeyOf(c))
    /\ UNCHANGED <<next_sid, made, epoch>>

\* clear_conversation(user_id, conversation_id)
ClearConversation(c) ==
    /\ Starts(c)
    /\ \E u \in Users, cid \in ConvIds :
         /\ chat_sessions' = clear_conversation(chat_sessions, u, cid)
         /\ epoch' = [epoch EXCEPT ![session_key(u, cid)] = @ + 1]
         /\ call' = [call EXCEPT ![c] =
                [NoCall EXCEPT !.op = "clear_conversation", !.user_id = u,
                               !.conversation_id = cid, !.pc = "done"]]
    /\ UNCHANGED <<history, next_sid, made>>

(***************************************************************************)
(* send_message_stream, consumed by the generate() of /chat/send/stream.   *)
(***************************************************************************)
\* a mutant of Yieldable: every chunk is yielded, empty or not
Yieldable_any(text) == TRUE

\* `if chunk.text:`
Yieldable(text) == text # ""

\* a mutant of stream_except: the generator ends without a fallback chunk
stream_except_silent(out) == out

\* the except clause of send_message_stream: what the generator has
\* yielded once it ran
stream_except(out) == Append(out, StreamFallback)

\* generate(): the frame for a chunk of the generator, and the last frame
Frame(text, done) == [text |-> text, done |-> done]
sse_chunk(text) == Frame(text, FALSE)
sse_done == Frame("", TRUE)

\* generate() forwards what the generator yielded beyond `before`
Forward(frames, before, after) ==
    frames \o [i \in 1..(Len(after) - Len(before)) |->
                  sse_chunk(after[Len(before) + i])]

\* a mutant of accumulate: the chunk replaces what was collected
accumulate_last(full_response, before, after) ==
    IF Len(after) > Len(before) THEN after[Len(after)] ELSE full_response

\* full_response += chunk, for the chunks the generator yielded beyond
\* `before`
RECURSIVE accumulate(_, _, _)
accumulate(full_response, before, after) ==
    IF Len(after) <= Len(before) THEN full_response
    ELSE accumulate(full_response \o after[Len(before) + 1],
                    Append(before, after[Len(before) + 1]), after)

\* the first step of the generator: the lookup and the streaming call
StreamStart(c) ==
    /\ Starts(c)
    /\ Cardinality({d \in Calls : call[d].op = "send_message_stream"}) < MaxStreams
    /\ \E u \in Users, cid \in ConvIds :
         Lookup(c, "send_message_stream", u, cid)

\* an exception in the generator's try block: the fallback chunk is
\* yielded and forwarded
StreamRaise(c) ==
    LET o2 == stream_except(call[c].out) IN
    /\ call' = [call EXCEPT ![c].pc = "finishing", ![c].failed = TRUE,
                            ![c].out = o2,
                            ![c].full_response =
                                accumulate(@, call[c].out, o2),
                            ![c].sse = Forward(@, call[c].out, o2)]
    /\ chat_sessions' = on_send_error(chat_sessions, KeyOf(c))
    /\ UNCHANGED <<history, next_sid, made, epoch>>

\* response = await chat.send_message_async(message, stream=True)
StreamOpen(c) ==
    /\ call[c].op = "send_message_stream" /\ call[c].pc = "await"
    /\ \/ /\ call' = [call EXCEPT ![c].pc = "streaming"]
          /\ UNCHANGED <<chat_sessions, history, next_sid, made, epoch>>
       \/ StreamRaise(c)

\* async for chunk in response: a chunk arrives
StreamChunk(c) ==
    /\ call[c].op = "send_message_stream" /\ call[c].pc = "streaming"
    /\ Len(call[c].got) < MaxChunks
    /\ \E text \in ChunkTexts :
         LET o2 == IF Yieldable(text) THEN Append(call[c].out, text)
                   ELSE call[c].out IN
         call' = [call EXCEPT ![c].got = Append(@, text), ![c].out = o2,
                              ![c].full_response =
                                  accumulate(@, call[c].out, o2),
                              ![c].sse = Forward(@, call[c].out, o2)]
    /\ UNCHANGED <<chat_sessions, history, next_sid, made, epoch>>

\* async for chunk in response: the stream, or chunk.text, raises
StreamError(c) ==
    /\ call[c].op = "send_message_stream" /\ call[c].pc = "streaming"
    /\ StreamRaise(c)

\* async for chunk in response: the stream is exhausted, the session has
\* recorded the turn, the generator returns; generate() yields the last
\* frame
StreamEnd(c) ==
    /\ call[c].op = "send_message_stream" /\ call[c].pc = "streaming"
    /\ history' = [history EXCEPT ![call[c].chat] = Append(@, c)]
    /\ call' = [call EXCEPT ![c].pc = "saving", ![c].sse = Append(@, sse_done)]
    /\ UNCHANGED <<chat_sessions, next_sid, made, epoch>>

\* the generator is resumed after its fallback chunk and returns;
\* generate() yields the last frame
StreamDone(c) ==
    /\ call[c].op = "send_message_stream" /\ call[c].pc = "finishing"
    /\ call' = [call EXCEPT ![c].pc = "saving", ![c].sse = Append(@, sse_done)]
    /\ UNCHANGED <<chat_sessions, history, next_sid, made, epoch>>

\* generate() after its last frame: firestore_service.save_chat_message
\* with content=full_response returns or raises
Save(c) ==
    /\ call[c].op = "send_message_stream" /\ call[c].pc = "saving"
    /\ \E ok \in BOOLEAN :
         call' = [call EXCEPT ![c].pc = "done", ![c].saved = ok,
                              ![c].content = IF ok THEN call[c].full_response
                                             ELSE None]
    /\ UNCHANGED <<chat_sessions, history, next_sid, made, epoch>>

\* the client stops reading: the response's generator is closed where it
\* stands
Abandon(c) ==
    /\ call[c].op = "send_message_stream"
    /\ call[c].pc \in {"await", "streaming", "finishing", "saving"}
    /\ call' = [call EXCEPT ![c].pc = "abandoned"]
    /\ UNCHANGED <<chat_sessions, history, next_sid, made, epoch>>

(***************************************************************************)
(* The endpoints /chat/send and /chat/send/stream, up to their call of     *)
(* GeminiService.                                                          *)
(***************************************************************************)
\* the request ends before GeminiService is called: get_current_user
\* raises 401, or saving the user's message raises
Rejected(c, endpoint) ==
    /\ call' = [call EXCEPT ![c] =
           [NoCall EXCEPT !.op = "rejected", !.pc = "done",
                          !.endpoint = endpoint]]
    /\ UNCHANGED <<chat_sessions, history, next_sid, made, epoch>>

\* POST /chat/send up to the await in gemini_service.send_message
ChatSend(c) ==
    /\ Starts(c)
    /\ \/ Rejected(c, "/chat/send")
       \/ \E u \in Users, requested \in ConvIds :
            LookupFor(c, "send_message", u,
                      endpoint_conversation_id(requested, c),
                      "/chat/send", requested)

\* POST /chat/send/stream up to the first await of the generator
ChatSendStream(c) ==
    /\ Starts(c)
    /\ Cardinality({d \in Calls : call[d].op = "send_message_stream"}) < MaxStreams
    /\ \/ Rejected(c, "/chat/send/stream")
       \/ \E u \in Users, requested \in ConvIds :
            LookupFor(c, "send_message_stream", u,
                      endpoint_conversation_id(requested, c),
                      "/chat/send/stream", requested)

(***************************************************************************)
(* Part IV: the error field of the error messages of /ws/speech.  A        *)
(* failure is the place where an exception is caught, or a service result  *)
(* with an "error" key is forwarded, and the text the exception or the     *)
(* result carries.                                                         *)
(***************************************************************************)
\* number of failures followed
MaxFailures == 2

\* where the handlers build an error message from a failure
Sites == {"receive_loop", "audio", "synthesize", "chat", "stt_result",
          "tts_result"}

\* str(e) of an exception, or the "error" value of a service result
ExceptionTexts ==
    {"timeout", "[Errno 111] Connection refused",
     "403 quota exceeded for project eva"}

\* the "error" value of the message the handler sends for a failure
error_field(site, text) ==
    CASE site = "receive_loop" -> text
      [] site = "audio" -> "Transcription failed: " \o text
      [] site = "synthesize" -> "Synthesis failed: " \o text
      [] site = "chat" -> "Chat failed: " \o text
      [] site = "stt_result" -> text
      [] site = "tts_result" -> text

VARIABLES
    \* the failures so far: site and text
    failures,
    \* the "error" value sent for each of them
    error_fields

errVars == <<failures, error_fields>>

ErrInit == failures = << >> /\ error_fields = << >>

\* a handler catches an exception, or gets a result with an "error" key,
\* and sends its error message
Fail ==
    /\ Len(failures) < MaxFailures
    /\ \E site \in Sites, text \in ExceptionTexts :
         /\ failures' = Append(failures, [site |-> site, text |-> text])
         /\ error_fields' = Append(error_fields, error_field(site, text))

(***************************************************************************)
(* Part V: the long-term memory endpoints of /memory.  A content is a      *)
(* sequence of characters.  memory_service is the store behind the         *)
(* endpoints: it assigns the id of a saved record and applies the fields   *)
(* of an update to the record of that user and id.                         *)
(***************************************************************************)
\* number of records the store may hold
MaxMemories == 2

\* the categories the description of MemoryCreate.category lists
Categories == {"preference", "interest", "event", "goal", "fact"}

\* the values of the requests
RequestCategories == {"preference", "fact", "unknown"}
RequestContents == {<< >>, <<" ">>, <<"a">>}
\* an optional field of a request: absent, or present with a value
Absent == << >>
Some(v) == <<v>>
RequestImportances == {Absent} \cup {Some(v) : v \in {0, 1, 10, 11}}

\* str.strip() on a sequence of characters
RECURSIVE lstrip(_)
lstrip(s) == IF s # << >> /\ Head(s) = " " THEN lstrip(Tail(s)) ELSE s

RECURSIVE rstrip(_)
rstrip(s) ==
    IF s # << >> /\ s[Len(s)] = " " THEN rstrip(SubSeq(s, 1, Len(s) - 1))
    ELSE s

strip(s) == rstrip(lstrip(s))

\* Field(default=5, ge=1, le=10) of MemoryCreate.importance: the value of
\* the field, or Absent when validation fails
create_importance(requested) ==
    LET v == IF requested = Absent THEN 5 ELSE requested[1] IN
    IF v >= 1 /\ v <= 10 THEN Some(v) ELSE Absent

\* Field(default=None, ge=1, le=10) of MemoryUpdate.importance: whether
\* validation passes
update_importance_ok(requested) ==
    IF requested = Absent THEN TRUE
    ELSE requested[1] >= 1 /\ requested[1] <= 10

\* `not memory.content or len(memory.content.strip()) == 0`
content_missing(content) == content = << >> \/ Len(strip(content)) = 0

\* update_data of update_memory: the fields of the request that are not
\* None
update_data(content, importance, metadata) ==
    (IF content # Absent THEN {"content"} ELSE {})
        \cup (IF importance # Absent THEN {"importance"} ELSE {})
        \cup (IF metadata THEN {"metadata"} ELSE {})

VARIABLES
    \* the store: per id the record, or NoMemory
    memories,
    \* the arguments of the last call of memory_service.save_memory
    save_call,
    \* the status of the last response
    status_code

memVars == <<memories, save_call, status_code>>

NoMemory ==
    [user_id |-> None, category |-> None, content |-> << >>, importance |-> 0]

NoSave == [category |-> None, content |-> << >>, importance |-> 0]

MemoryIds == 1..MaxMemories

MemInit ==
    /\ memories = [i \in MemoryIds |-> NoMemory]
    /\ save_call = NoSave
    /\ status_code = 0

\* memory_service.save_memory: the record is stored under a new id
save_memory(store, uid, category, content, importance) ==
    LET free == {i \in MemoryIds : store[i] = NoMemory}
        id == CHOOSE i \in free : \A j \in free : i <= j IN
    [store EXCEPT ![id] = [user_id |-> uid, category |-> category,
                           content |-> content, importance |-> importance]]

\* memory_service.update_memory: the fields of updates are set on the
\* record
update_memory_record(record, fields, content, importance) ==
    [record EXCEPT
        !.content = IF "content" \in fields THEN content[1] ELSE @,
        !.importance = IF "importance" \in fields THEN importance[1] ELSE @]

\* POST /memory/
CreateMemory ==
    \E uid \in Users, category \in RequestCategories,
       content \in RequestContents, requested \in RequestImportances :
        LET validated == create_importance(requested)
            importance == validated[1] IN
        IF validated = Absent
        THEN \* the request model is rejected
             status_code' = 422 /\ UNCHANGED <<memories, save_call>>
        ELSE IF content_missing(content)
        THEN status_code' = 400 /\ UNCHANGED <<memories, save_call>>
        ELSE /\ \E i \in MemoryIds : memories[i] = NoMemory
             /\ save_call' = [category |-> category, content |-> content,
                               importance |-> importance]
             /\ \/ /\ memories' = save_memory(memories, uid, category,
                                               content, importance)
                   /\ status_code' = 200
                \/ \* save_memory raises
                   /\ status_code' = 500
                   /\ UNCHANGED memories

\* PUT /memory/{memory_id}
UpdateMemory ==
    \E uid \in Users, id \in MemoryIds,
       content \in {Absent} \cup {Some(c) : c \in RequestContents},
       importance \in RequestImportances, metadata \in BOOLEAN :
        /\ UNCHANGED save_call
        /\ IF ~update_importance_ok(importance)
           THEN status_code' = 422 /\ UNCHANGED memories
           ELSE LET fields == update_data(content, importance, metadata) IN
                IF fields = {}
                THEN status_code' = 400 /\ UNCHANGED memories
                ELSE IF memories[id].user_id # uid
                THEN status_code' = 404 /\ UNCHANGED memories
                ELSE /\ memories' = [memories EXCEPT ![id] =
                            update_memory_record(@, fields, content,
                                                 importance)]
                     /\ status_code' = 200

\* DELETE /memory/{memory_id}
DeleteMemory ==
    \E uid \in Users, id \in MemoryIds :
        /\ UNCHANGED save_call
        /\ IF memories[id].user_id # uid
           THEN status_code' = 404 /\ UNCHANGED memories
           ELSE /\ memories' = [memories EXCEPT ![id] = NoMemory]
                /\ status_code' = 200

(***************************************************************************)
(* Part VI: /chat/send and DELETE /chat/{conversation_id} against the      *)
(* message store.  firestore_service is the store behind the endpoints:    *)
(* save_chat_message adds a message unless its id is taken, and            *)
(* delete_conversation removes the messages of a conversation.             *)
(* GeminiService.send_message returns a text, its fallback text included.  *)
(***************************************************************************)
\* number of /chat/send requests
NumRequests == 2
\* the last reading of the clock
MaxClock == 2

Requests == 1..NumRequests
RequestTexts == {"m1", "m2"}
ResponseTexts == {"r1", SendFallback}
StoreUsers == {"u1"}

VARIABLES
    \* the messages the store holds
    store,
    \* per request: position and locals of send_message
    req,
    \* what datetime.utcnow() returns
    now,
    \* the (user, conversation) pairs delete_conversation was called for
    deleted

stoVars == <<store, req, now, deleted>>

NoRequest ==
    [pc |-> "idle", user_id |-> None, conversation_id |-> None,
     message |-> None, timestamp |-> 0, response_text |-> None,
     response_timestamp |-> 0, steps |-> << >>]

StoInit ==
    /\ store = {}
    /\ req = [r \in Requests |-> NoRequest]
    /\ now = 0
    /\ deleted = {}

\* message_id = f"msg_{uuid.uuid4().hex[:12]}" of request r, for its
\* user message or its response
message_id(r, role) == "msg_" \o ToString(r) \o role

\* the document save_chat_message is called with
ChatMessage(uid, conversation_id, id, content, role, timestamp) ==
    [user_id |-> uid, conversation_id |-> conversation_id,
     message_id |-> id, content |-> content, role |-> role,
     timestamp |-> timestamp]

\* firestore_service.save_chat_message: whether the id is free
id_free(messages, m) ==
    \A x \in messages :
        ~(/\ x.user_id = m.user_id
          /\ x.conversation_id = m.conversation_id
          /\ x.message_id = m.message_id)

\* firestore_service.save_chat_message
save_chat_message(messages, m) == messages \cup {m}

\* firestore_service.delete_conversation
delete_conversation(messages, uid, conversation_id) ==
    {x \in messages :
        ~(x.user_id = uid /\ x.conversation_id = conversation_id)}

\* the clock moves on
Tick ==
    /\ now < MaxClock
    /\ now' = now + 1
    /\ UNCHANGED <<store, req, deleted>>

\* send_message: get_current_user, the ids and the timestamp; the request
\* ends here with 401 when the token is refused
RequestStart(r) ==
    /\ req[r].pc = "idle"
    /\ IF r = 1 THEN TRUE ELSE req[r - 1].pc # "idle"
    /\ \/ req' = [req EXCEPT ![r].pc = "failed"]
       \/ \E u \in StoreUsers, requested \in ConvIds, text \in RequestTexts :
            req' = [req EXCEPT ![r] =
                [NoRequest EXCEPT
                    !.pc = "save_user", !.user_id = u,
                    !.conversation_id = endpoint_conversation_id(requested, r),
                    !.message = text, !.timestamp = now]]
    /\ UNCHANGED <<store, now, deleted>>

\* a step of send_message that awaits the store: the call returns and the
\* request goes on at `next`, or it raises and the request fails
StoreStep(r, name, m, next) ==
    \/ /\ id_free(store, m)
       /\ store' = save_chat_message(store, m)
       /\ req' = [req EXCEPT ![r].pc = next, ![r].steps = Append(@, name)]
    \/ /\ req' = [req EXCEPT ![r].pc = "failed"]
       /\ UNCHANGED store

\* await firestore_service.save_chat_message(..., role="user", ...)
SaveUserMessage(r) ==
    /\ req[r].pc = "save_user"
    /\ StoreStep(r, "save_user",
                 ChatMessage(req[r].user_id, req[r].conversation_id,
                             message_id(r, "user"), req[r].message, "user",
                             req[r].timestamp),
                 "generate")
    /\ UNCHANGED <<now, deleted>>

\* response_text = await gemini_service.send_message(...), and the
\* response's id and timestamp
Generate(r) ==
    /\ req[r].pc = "generate"
    /\ \E text \in ResponseTexts :
         req' = [req EXCEPT ![r].pc = "save_assistant",
                            ![r].response_text = text,
                            ![r].response_timestamp = now,
                            ![r].steps = Append(@, "generate")]
    /\ UNCHANGED <<store, now, deleted>>

\* a mutant of SaveAssistantMessage: a failed save is passed over
SaveAssistantMessage_swallows(r) ==
    /\ req[r].pc = "save_assistant"
    /\ req' = [req EXCEPT ![r].pc = "metadata",
                          ![r].steps = Append(@, "save_assistant")]
    /\ UNCHANGED <<store, now, deleted>>

\* await firestore_service.save_chat_message(..., role="assistant", ...)
SaveAssistantMessage(r) ==
    /\ req[r].pc = "save_assistant"
    /\ StoreStep(r, "save_assistant",
                 ChatMessage(req[r].user_id, req[r].conversation_id,
                             message_id(r, "assistant"),
                             req[r].response_text, "assistant",
                             req[r].response_timestamp),
                 "metadata")
    /\ UNCHANGED <<now, deleted>>

\* await firestore_service.update_conversation_metadata(...), then the
\* response is returned
UpdateMetadata(r) ==
    /\ req[r].pc = "metadata"
    /\ \/ req' = [req EXCEPT ![r].pc = "returned",
                             ![r].steps = Append(@, "metadata")]
       \/ req' = [req EXCEPT ![r].pc = "failed"]
    /\ UNCHANGED <<store, now, deleted>>

\* DELETE /chat/{conversation_id} of a conversation some request is in
DeleteConversation ==
    /\ \E r \in Requests :
         /\ req[r].user_id # None
         /\ store' = delete_conversation(store, req[r].user_id,
                                         req[r].conversation_id)
         /\ deleted' = deleted \cup
                {<<req[r].user_id, req[r].conversation_id>>}
    /\ UNCHANGED <<req, now>>

(***************************************************************************)
(* Part VII: POST /auth/register.  AuthService.register_user awaits the    *)
(* verification of the Google token and three calls of the user store,     *)
(* and other requests run at each await.  firestore_service is the user    *)
(* store: get_user reads a user document, count_users counts the           *)
(* documents, create_user writes the document of the user's uid.           *)
(***************************************************************************)
\* number of concurrent registrations
NumRegistrations == 2
\* settings.max_users
max_users == 5

Registrations == 1..NumRegistrations
\* the Google identities ("sub") of the tokens presented
Identities == {"g1", "g2"}
\* the identity of the k-th user registered while no other registration ran
Earlier(k) == "e" \o ToString(k)

VARIABLES
    \* the uids of the user documents
    users,
    \* per registration: position, google_user["sub"], user_count and the
    \* status code of the response
    reg

regVars == <<users, reg>>

NoRegistration ==
    [pc |-> "idle", sub |-> None, user_count |-> 0, status |-> 0,
     detail |-> None]

RegInit ==
    /\ users = {}
    /\ reg = [r \in Registrations |-> NoRegistration]

\* register: the status code for a ValueError of register_user
register_status(detail) ==
    IF detail = "User already registered" THEN 409
    ELSE IF detail = "Maximum user limit reached" THEN 403
    ELSE 400

\* raise ValueError(detail) in register_user, caught by register
RaiseValueError(r, detail) ==
    reg' = [reg EXCEPT ![r].pc = "failed", ![r].detail = detail,
                       ![r].status = register_status(detail)]

\* a whole register_user call with no other registration in flight
RegisterAlone ==
    /\ \A r \in Registrations : reg[r].pc = "idle"
    /\ Cardinality(users) < max_users
    /\ users' = users \cup {Earlier(Cardinality(users) + 1)}
    /\ UNCHANGED reg

\* google_user = await self.verify_google_token(id_token_string)
VerifyToken(r) ==
    /\ reg[r].pc = "idle"
    /\ IF r = 1 THEN TRUE ELSE reg[r - 1].pc # "idle"
    /\ \/ RaiseValueError(r, "Invalid Google ID token")
       \/ \E g \in Identities :
            reg' = [reg EXCEPT ![r].pc = "get_user", ![r].sub = g]
    /\ UNCHANGED users

\* existing_user = await firestore_service.get_user(google_user["sub"])
GetUser(r) ==
    /\ reg[r].pc = "get_user"
    /\ IF reg[r].sub \in users
         THEN RaiseValueError(r, "User already registered")
         ELSE reg' = [reg EXCEPT ![r].pc = "count_users"]
    /\ UNCHANGED users

\* user_count = await firestore_service.count_users() and the limit test
CountUsers(r) ==
    /\ reg[r].pc = "count_users"
    /\ LET user_count == Cardinality(users)
       IN IF user_count >= max_users
            THEN RaiseValueError(r, "Maximum user limit reached")
            ELSE reg' = [reg EXCEPT ![r].pc = "create_user",
                                    ![r].user_count = user_count]
    /\ UNCHANGED users

\* await firestore_service.create_user(user), and the 201 response
CreateUser(r) ==
    /\ reg[r].pc = "create_user"
    /\ users' = users \cup {reg[r].sub}
    /\ reg' = [reg EXCEPT ![r].pc = "registered", ![r].status = 201]

(***************************************************************************)
(* Part VIII: ConnectionManager.send_personal_message, called by code      *)
(* outside the handlers while connections come and go.                     *)
(***************************************************************************)
\* number of send_personal_message calls
MaxPersonal == 2

\* the users a personal message is addressed to: "u3" never connects
PersonalUsers == Users \cup {"u3"}

VARIABLES
    \* the send_personal_message calls so far: the addressee, the handles
    \* send_json was called on, and whether the call raised
    personal

pmVars == <<personal>>

PmInit == personal = << >>

\* one call of send_personal_message; a send_json it awaits returns or
\* raises, and a raise ends the call
SendPersonalMessage ==
    /\ Len(personal) < MaxPersonal
    /\ \E u \in PersonalUsers, d \in Devices :
         LET to == send_personal_message(active_connections, u, d) IN
         \E n \in 0..Len(to), raised \in BOOLEAN :
            /\ raised = (n < Len(to))
            /\ personal' = Append(personal,
                   [user_id |-> u, device_id |-> d,
                    called |-> IF raised THEN SubSeq(to, 1, n + 1)
                               ELSE to,
                    raised |-> raised])
    /\ UNCHANGED wsVars

(***************************************************************************)
(* Part IX: handle_audio_message and handle_synthesize_message with a log  *)
(* of what each call came to: the locals of the call, which the messages   *)
(* on the wire do not show.                                                *)
(***************************************************************************)
VARIABLES
    \* per socket, for the last audio or synthesize message handled: what
    \* the try block came to, the message built, and the send_json calls
    speech

spVars == <<speech>>

NoSpeech ==
    [type |-> None, cause |-> None, text |-> << >>,
     message |-> [type |-> None, text |-> << >>, intent |-> None],
     sends |-> << >>]

SpInit == speech = [s \in Sockets |-> NoSpeech]

\* handle_audio_message
HandleAudioLogged(s) ==
    /\ pc[s] = "dispatch" /\ data[s].type = "audio"
    /\ \E r \in AudioResults(data[s].payload),
          o1 \in Outcomes, o2 \in Outcomes :
         /\ TryExceptOf(s, audio_message(r).type, o1, o2)
         /\ speech' = [speech EXCEPT ![s] =
                [type |-> "audio", cause |-> r.cause, text |-> r.text,
                 message |-> audio_message(r),
                 sends |-> send_json_calls(audio_message(r).type, o1, o2)]]

\* handle_synthesize_message
HandleSynthesizeLogged(s) ==
    /\ pc[s] = "dispatch" /\ data[s].type = "synthesize"
    /\ \E cause \in SynthesisCauses(data[s].payload),
          o1 \in Outcomes, o2 \in Outcomes :
         /\ TryExceptOf(s, synthesize_message(cause), o1, o2)
         /\ speech' = [speech EXCEPT ![s] =
                [type |-> "synthesize", cause |-> cause, text |-> << >>,
                 message |-> [type |-> synthesize_message(cause),
                              text |-> << >>, intent |-> None],
                 sends |-> send_json_calls(synthesize_message(cause), o1, o2)]]

(***************************************************************************)
(* Part X: POST /conversation/intent.                                      *)
(***************************************************************************)
VARIABLES
    \* the message of the last request, the status code of its response
    \* and the IntentAnalysis returned
    intent_message, intent_status, intent

intVars == <<intent_message, intent_status, intent>>

NoIntent == IntentResult(None, 0)

IntInit ==
    /\ intent_message = << >>
    /\ intent_status = 0
    /\ intent = NoIntent

\* analyze_intent of api/conversation.py: 400 for a message that is empty
\* or blank, else the result of conversation_service.analyze_intent
AnalyzeIntent ==
    \E message \in Texts :
        /\ intent_message' = message
        /\ IF message = << >>
           THEN intent_status' = 400 /\ intent' = NoIntent
           ELSE intent_status' = 200 /\ intent' = analyze_intent(message)

(***************************************************************************)
(* Part XI: the keys of GeminiService._chat_sessions for identifiers that  *)
(* contain ':'.  A key is the string f"{user_id}:{conversation_id or       *)
(* 'default'}"; startswith and replace work on its characters.             *)
(***************************************************************************)
\* number of chat sessions started
MaxKeySessions == 2

KeyUsers == {"a", "a:b"}
KeyConvIds == {None, "c", "b:c", "ba:c"}
KeyPairs == KeyUsers \X KeyConvIds

\* the characters of an identifier
Chars(id) ==
    CASE id = "a" -> <<"a">>
      [] id = "a:b" -> <<"a", ":", "b">>
      [] id = "c" -> <<"c">>
      [] id = "b:c" -> <<"b", ":", "c">>
      [] id = "ba:c" -> <<"b", "a", ":", "c">>
      [] id = "default" -> <<"d", "e", "f", "a", "u", "l", "t">>

\* conversation_id or 'default'
or_default(cid) == IF cid = None \/ cid = "" THEN "default" ELSE cid

\* the characters of a key of the session map
key_chars(key) ==
    LET p == CHOOSE q \in KeyPairs : session_key(q[1], q[2]) = key IN
    Chars(p[1]) \o <<":">> \o Chars(or_default(p[2]))

\* str.startswith
startswith(str, prefix) ==
    /\ Len(prefix) <= Len(str)
    /\ SubSeq(str, 1, Len(prefix)) = prefix

\* str.replace(old, ""): every occurrence of old is removed, left to right
RECURSIVE replace(_, _)
replace(str, old) ==
    IF Len(str) < Len(old) THEN str
    ELSE IF startswith(str, old)
    THEN replace(SubSeq(str, Len(old) + 1, Len(str)), old)
    ELSE <<Head(str)>> \o replace(Tail(str), old)

\* GeminiService.get_active_conversations: the ids of the list returned
get_active_conversations(sessions, uid) ==
    LET prefix == Chars(uid) \o <<":">> IN
    {replace(key_chars(key), prefix) :
        key \in {k \in DOMAIN sessions : startswith(key_chars(k), prefix)}}

VARIABLES
    \* per chat session object: the (user, conversation) pair whose lookup
    \* started it (history)
    owner,
    \* the last _get_or_create_chat call: its arguments and the session
    \* returned
    resolved,
    \* the last clear_conversation call: its arguments
    cleared,
    \* the last get_active_conversations call: its argument and result
    active

keyVars == <<owner, resolved, cleared, active>>

NoPair == <<None, None>>

KeyInit ==
    /\ owner = [sid \in 1..MaxKeySessions |-> NoPair]
    /\ resolved = [user_id |-> None, conversation_id |-> None, chat |-> 0]
    /\ cleared = NoPair
    /\ active = [user_id |-> None, ids |-> {}]

\* chat = self._get_or_create_chat(user_id, conversation_id)
GetOrCreateChat ==
    \E p \in KeyPairs :
        LET r == get_or_create_chat(chat_sessions, next_sid,
                                    session_key(p[1], p[2])) IN
        /\ r.created => next_sid <= MaxKeySessions
        /\ chat_sessions' = r.sessions
        /\ next_sid' = IF r.created THEN next_sid + 1 ELSE next_sid
        /\ owner' = IF r.created
                    THEN [owner EXCEPT ![r.chat] = <<p[1], or_default(p[2])>>]
                    ELSE owner
        /\ resolved' = [user_id |-> p[1], conversation_id |-> p[2],
                        chat |-> r.chat]
        /\ UNCHANGED <<cleared, active>>

\* clear_conversation(user_id, conversation_id)
ClearKey ==
    \E p \in KeyPairs :
        /\ chat_sessions' = clear_conversation(chat_sessions, p[1], p[2])
        /\ cleared' = <<p[1], or_default(p[2])>>
        /\ UNCHANGED <<next_sid, owner, resolved, active>>

\* get_active_conversations(user_id)
GetActiveConversations ==
    \E u \in KeyUsers :
        /\ active' = [user_id |-> u,
                      ids |-> get_active_conversations(chat_sessions, u)]
        /\ UNCHANGED <<chat_sessions, next_sid, owner, resolved, cleared>>

(***************************************************************************)
(* Part XII: the memory tiering pipeline behind POST /memory/compress and  *)
(* POST /conversation/compress-memory.  The pipeline fetches the recent    *)
(* short-term messages of the user, asks the generation engine for a       *)
(* summary and candidate facts, and persists the valid candidates.         *)
(***************************************************************************)
\* number of recent short-term messages of the user
MaxWindow == 2
\* number of candidate facts the generation engine returns
MaxCandidates == 2
\* number of compress requests
MaxCompressions == 3

\* a candidate fact: a category and an importance
Candidate(category, importance) ==
    [category |-> category, importance |-> importance]

CandidateFacts ==
    {Candidate("preference", 5), Candidate("fact", 10),
     Candidate("fact", 11), Candidate("unknown", 5)}

CandidateLists == UNION {[1..n -> CandidateFacts] : n \in 0..MaxCandidates}

\* the invariants of a memory record: category of the enumerated set,
\* importance within 1..10
valid_candidate(fact) ==
    /\ fact.category \in Categories
    /\ fact.importance >= 1
    /\ fact.importance <= 10

\* the dict returned by compress; "error" is a key of it only on failure
CompressResult(error, summary, facts_saved) ==
    [error |-> error, summary |-> summary, facts_saved |-> facts_saved]

\* what a run of the pipeline did: the dict returned (or the exception
\* raised), the records written to long-term memory, and whether the
\* generation engine was invoked
Run(raised, result, written, generated) ==
    [raised |-> raised, result |-> result, written |-> written,
     generated |-> generated]

\* a mutant of compress: an empty window is reported as an error
compress_empty_is_error(window, fetch_ok, engine_ok, candidates, save_ok) ==
    IF ~fetch_ok
    THEN Run(TRUE, CompressResult(Absent, "", 0), << >>, FALSE)
    ELSE IF window = 0
    THEN Run(FALSE, CompressResult(Some("no messages"), "", 0), << >>, FALSE)
    ELSE IF ~engine_ok
    THEN Run(FALSE, CompressResult(Some("generation failed"), "", 0),
             << >>, TRUE)
    ELSE LET kept == SelectSeq([i \in 1..Len(candidates) |-> i],
                               LAMBDA i : /\ valid_candidate(candidates[i])
                                          /\ save_ok[i]) IN
         Run(FALSE, CompressResult(Absent, "summary", Len(kept)),
             [k \in 1..Len(kept) |-> candidates[kept[k]]], TRUE)

\* compress(user_id): the steps of the pipeline.  window is the number of
\* recent messages fetched, fetch_ok and engine_ok whether the fetch and
\* the upstream call succeed, candidates the facts the engine proposes and
\* save_ok[i] whether persisting candidate i succeeds.
compress(window, fetch_ok, engine_ok, candidates, save_ok) ==
    IF ~fetch_ok
    THEN Run(TRUE, CompressResult(Absent, "", 0), << >>, FALSE)
    ELSE IF window = 0
    THEN Run(FALSE, CompressResult(Absent, "", 0), << >>, FALSE)
    ELSE IF ~engine_ok
    THEN Run(FALSE, CompressResult(Some("generation failed"), "", 0),
             << >>, TRUE)
    ELSE LET kept == SelectSeq([i \in 1..Len(candidates) |-> i],
                               LAMBDA i : /\ valid_candidate(candidates[i])
                                          /\ save_ok[i]) IN
         Run(FALSE, CompressResult(Absent, "summary", Len(kept)),
             [k \in 1..Len(kept) |-> candidates[kept[k]]], TRUE)

\* the status code of the compress endpoints: 500 for an exception and for
\* a result with the key "error", else the result is returned
compress_status(run) ==
    IF run.raised THEN 500
    ELSE IF run.result.error # Absent THEN 500
    ELSE 200

VARIABLES
    \* the number of recent short-term messages of the user
    short_term,
    \* the records the pipeline wrote to long-term memory
    long_term,
    \* the number of calls of the generation engine by the pipeline
    generations,
    \* the last compress request: its number, its endpoint, whether the
    \* fetch succeeded, the window fetched, the status code and the result
    compression

tierVars == <<short_term, long_term, generations, compression>>

NoCompression ==
    [n |-> 0, endpoint |-> None, fetched |-> FALSE, window |-> 0,
     status_code |-> 0, result |-> CompressResult(Absent, "", 0)]

TierInit ==
    /\ short_term = 0
    /\ long_term = << >>
    /\ generations = 0
    /\ compression = NoCompression

\* a turn is saved to the short-term context
SaveShortTerm ==
    /\ short_term < MaxWindow
    /\ short_term' = short_term + 1
    /\ UNCHANGED <<long_term, generations, compression>>

\* the short-term context is cleared
ClearShortTerm ==
    /\ short_term > 0
    /\ short_term' = 0
    /\ UNCHANGED <<long_term, generations, compression>>

\* a compress endpoint: the pipeline runs, then the result is mapped to
\* the response
CompressEndpoint(endpoint) ==
    /\ compression.n < MaxCompressions
    /\ \E fetch_ok, engine_ok \in BOOLEAN, candidates \in CandidateLists :
       \E save_ok \in [1..Len(candidates) -> BOOLEAN] :
           LET run == compress(short_term, fetch_ok, engine_ok, candidates,
                               save_ok) IN
           /\ long_term' = long_term \o run.written
           /\ generations' = generations + (IF run.generated THEN 1 ELSE 0)
           /\ compression' =
                  [n |-> compression.n + 1, endpoint |-> endpoint,
                   fetched |-> fetch_ok, window |-> short_term,
                   status_code |-> compress_status(run),
                   result |-> IF compress_status(run) = 200
                              THEN run.result
                              ELSE CompressResult(Absent, "", 0)]
           /\ UNCHANGED short_term

\* POST /memory/compress
CompressToLongTerm == CompressEndpoint("/memory/compress")

\* POST /conversation/compress-memory
CompressMemory == CompressEndpoint("/conversation/compress-memory")

(***************************************************************************)
(* Part XIII: DELETE /chat/{conversation_id}.  The endpoint awaits the     *)
(* deletion in the store and then clears the session of GeminiService;     *)
(* chat requests run while it is suspended.                                *)
(***************************************************************************)
\* number of delete requests
NumDeletes == 2

Deletes == 1..NumDeletes
\* the conversation ids of the delete requests: one chosen by a client and
\* the one made for the first /chat/send request
DeleteConvIds == {"c1", fresh_conversation_id(1)}

VARIABLES
    \* per delete request: position, user, conversation id, status code of
    \* the response, and (history) the number of messages its deletion
    \* removed and the session its clear_conversation removed or its
    \* failure left in the session map
    del_req

delVars == <<del_req>>

NoDelete ==
    [pc |-> "idle", user_id |-> None, conversation_id |-> None,
     status |-> 0, stored |-> FALSE, removed |-> 0, session |-> 0]

DelInit == del_req = [k \in Deletes |-> NoDelete]

\* the messages of a conversation
messages_of(messages, uid, conversation_id) ==
    {x \in messages : x.user_id = uid /\ x.conversation_id = conversation_id}

\* the session of a conversation, 0 when it has none
session_of(sessions, uid, conversation_id) ==
    LET key == session_key(uid, conversation_id) IN
    IF key \in DOMAIN sessions THEN sessions[key] ELSE 0

\* user = await get_current_user(authorization): 401, or the user
DeleteStart(k) ==
    /\ del_req[k].pc = "idle"
    /\ IF k = 1 THEN TRUE ELSE del_req[k - 1].pc # "idle"
    /\ \/ del_req' = [del_req EXCEPT ![k].pc = "failed", ![k].status = 401]
       \/ \E u \in Users, cid \in DeleteConvIds :
            del_req' = [del_req EXCEPT ![k].pc = "delete", ![k].user_id = u,
                                       ![k].conversation_id = cid]
    /\ UNCHANGED <<store, chat_sessions>>

\* a mutant of DeleteFromStore: a failed deletion is passed over
DeleteFromStore_swallows(k) ==
    /\ del_req[k].pc = "delete"
    /\ \/ /\ store' = delete_conversation(store, del_req[k].user_id,
                                          del_req[k].conversation_id)
          /\ del_req' = [del_req EXCEPT
                 ![k].pc = "clear", ![k].stored = TRUE,
                 ![k].removed =
                     Cardinality(messages_of(store, del_req[k].user_id,
                                             del_req[k].conversation_id))]
       \/ /\ del_req' = [del_req EXCEPT ![k].pc = "clear"]
          /\ UNCHANGED store
    /\ UNCHANGED chat_sessions

\* await firestore_service.delete_conversation(...): the messages of the
\* conversation are deleted, or the call raises and the request fails
DeleteFromStore(k) ==
    /\ del_req[k].pc = "delete"
    /\ \/ /\ store' = delete_conversation(store, del_req[k].user_id,
                                          del_req[k].conversation_id)
          /\ del_req' = [del_req EXCEPT
                 ![k].pc = "clear", ![k].stored = TRUE,
                 ![k].removed =
                     Cardinality(messages_of(store, del_req[k].user_id,
                                             del_req[k].conversation_id))]
       \/ /\ del_req' = [del_req EXCEPT
                 ![k].pc = "failed", ![k].status = 500,
                 ![k].session = session_of(chat_sessions,
                                           del_req[k].user_id,
                                           del_req[k].conversation_id)]
          /\ UNCHANGED store
    /\ UNCHANGED chat_sessions

\* gemini_service.clear_conversation(user.uid, conversation_id) and the
\* response
ClearSession(k) ==
    /\ del_req[k].pc = "clear"
    /\ chat_sessions' = clear_conversation(chat_sessions, del_req[k].user_id,
                                           del_req[k].conversation_id)
    /\ del_req' = [del_req EXCEPT
           ![k].pc = "done", ![k].status = 200,
           ![k].session = session_of(chat_sessions, del_req[k].user_id,
                                     del_req[k].conversation_id)]
    /\ UNCHANGED store

(***************************************************************************)
(* Specifications.                                                         *)
(***************************************************************************)
vars == <<wsVars, gemVars, errVars, memVars, stoVars, regVars, pmVars,
          spVars, intVars, keyVars,
          tierVars,
          delVars>>

Init == WsInit /\ GemInit /\ ErrInit /\ MemInit /\ StoInit /\ RegInit
        /\ PmInit /\ SpInit /\ IntInit /\ KeyInit
        /\ TierInit
        /\ DelInit

\* what the steps of one part of the program leave alone: the state of
\* the other parts
exceptWs ==
    <<gemVars, errVars, memVars, stoVars, regVars, pmVars, spVars,
      intVars, keyVars,
      tierVars,
      delVars>>
exceptGem ==
    <<wsVars, errVars, memVars, stoVars, regVars, pmVars, spVars,
      intVars, keyVars,
      tierVars,
      delVars>>
exceptErr ==
    <<wsVars, gemVars, memVars, stoVars, regVars, pmVars, spVars,
      intVars, keyVars,
      tierVars,
      delVars>>
exceptMem ==
    <<wsVars, gemVars, errVars, stoVars, regVars, pmVars, spVars,
      intVars, keyVars,
      tierVars,
      delVars>>
exceptSto ==
    <<wsVars, gemVars, errVars, memVars, regVars, pmVars, spVars,
      intVars, keyVars,
      tierVars,
      delVars>>
exceptReg ==
    <<wsVars, gemVars, errVars, memVars, stoVars, pmVars, spVars,
      intVars, keyVars,
      tierVars,
      delVars>>
exceptPm ==
    <<gemVars, errVars, memVars, stoVars, regVars, spVars,
      intVars, keyVars,
      tierVars,
      delVars>>
exceptSp ==
    <<gemVars, errVars, memVars, stoVars, regVars, pmVars,
      intVars, keyVars,
      tierVars,
      delVars>>
exceptInt ==
    <<wsVars, gemVars, errVars, memVars, stoVars, regVars, pmVars, spVars,
      keyVars,
      tierVars,
      delVars>>
exceptKey ==
    <<wsVars, history, call, made, epoch, errVars, memVars, stoVars, regVars,
      pmVars, spVars, intVars,
      tierVars,
      delVars>>
exceptTier ==
    <<wsVars, gemVars, errVars, memVars, stoVars, regVars, pmVars, spVars,
      intVars, keyVars,
      delVars>>
exceptDel ==
    <<wsVars, errVars, memVars, regVars, pmVars, spVars, intVars, owner,
      resolved, cleared, active, tierVars>>

\* Spec: the connection registry and the websocket handlers
Next ==
    \E s \in 1..NumSockets :
        \/ Open(s) /\ UNCHANGED exceptWs
        \/ Authenticate(s) /\ UNCHANGED exceptWs
        \/ Accept(s) /\ UNCHANGED exceptWs
        \/ SendConfirmation(s) /\ UNCHANGED exceptWs
        \/ Receive(s) /\ UNCHANGED exceptWs
        \/ HandlePing(s) /\ UNCHANGED exceptWs
        \/ HandleInterrupt(s) /\ UNCHANGED exceptWs
        \/ HandleUnknown(s) /\ UNCHANGED exceptWs
        \/ HandleAudio(s) /\ UNCHANGED exceptWs
        \/ HandleSynthesize(s) /\ UNCHANGED exceptWs
        \/ HandleChat(s) /\ UNCHANGED exceptWs
        \/ Broadcast(s) /\ UNCHANGED exceptWs
        \/ HandleException(s) /\ UNCHANGED exceptWs

Spec == Init /\ [][Next]_vars

(***************************************************************************)
(* SpecSync: the same handlers with the clients restricted to valid        *)
(* tokens and to chat messages that ask for sync_devices, over more        *)
(* sockets and devices: the broadcasts of ConnectionManager.               *)
(***************************************************************************)
SyncInbound == {Msg("chat", TRUE, FALSE, TRUE)}

OpenSync(s) ==
    OpenOf(s, IF s = 1 THEN {"tok_u1"} ELSE {"tok_u1", "tok_u2"},
           FirstDevices(s, SyncDevices))

ReceiveSync(s) == ReceiveOf(s, SyncInbound, MaxSyncMsgs)

SyncNext ==
    \E s \in 1..NumSyncSockets :
        \/ OpenSync(s) /\ UNCHANGED exceptWs
        \/ Authenticate(s) /\ UNCHANGED exceptWs
        \/ Accept(s) /\ UNCHANGED exceptWs
        \/ SendConfirmation(s) /\ UNCHANGED exceptWs
        \/ ReceiveSync(s) /\ UNCHANGED exceptWs
        \/ HandleChat(s) /\ UNCHANGED exceptWs
        \/ Broadcast(s) /\ UNCHANGED exceptWs
        \/ HandleException(s) /\ UNCHANGED exceptWs

SpecSync == Init /\ [][SyncNext]_vars

(***************************************************************************)
(* SpecGemini: concurrent calls of GeminiService and of the streaming      *)
(* endpoint.                                                               *)
(***************************************************************************)
GeminiNext ==
    \E c \in Calls :
        \/ SendStart(c) /\ UNCHANGED exceptGem
        \/ SendFinish(c) /\ UNCHANGED exceptGem
        \/ ClearConversation(c) /\ UNCHANGED exceptGem
        \/ StreamStart(c) /\ UNCHANGED exceptGem
        \/ StreamOpen(c) /\ UNCHANGED exceptGem
        \/ StreamChunk(c) /\ UNCHANGED exceptGem
        \/ StreamError(c) /\ UNCHANGED exceptGem
        \/ StreamEnd(c) /\ UNCHANGED exceptGem
        \/ StreamDone(c) /\ UNCHANGED exceptGem
        \/ Save(c) /\ UNCHANGED exceptGem
        \/ Abandon(c) /\ UNCHANGED exceptGem

SpecGemini == Init /\ [][GeminiNext]_vars

(***************************************************************************)
(* SpecChat: requests to /chat/send and /chat/send/stream.                 *)
(***************************************************************************)
ChatNext ==
    \E c \in Calls :
        \/ ChatSend(c) /\ UNCHANGED exceptGem
        \/ SendFinish(c) /\ UNCHANGED exceptGem
        \/ ChatSendStream(c) /\ UNCHANGED exceptGem
        \/ StreamOpen(c) /\ UNCHANGED exceptGem
        \/ StreamChunk(c) /\ UNCHANGED exceptGem
        \/ StreamError(c) /\ UNCHANGED exceptGem
        \/ StreamEnd(c) /\ UNCHANGED exceptGem
        \/ StreamDone(c) /\ UNCHANGED exceptGem
        \/ Save(c) /\ UNCHANGED exceptGem
        \/ Abandon(c) /\ UNCHANGED exceptGem

SpecChat == Init /\ [][ChatNext]_vars

(***************************************************************************)
(* SpecStore: /chat/send requests and the message store.                   *)
(***************************************************************************)
StoreNext ==
    \/ Tick /\ UNCHANGED exceptSto
    \/ DeleteConversation /\ UNCHANGED exceptSto
    \/ \E r \in Requests :
          \/ RequestStart(r) /\ UNCHANGED exceptSto
          \/ SaveUserMessage(r) /\ UNCHANGED exceptSto
          \/ Generate(r) /\ UNCHANGED exceptSto
          \/ SaveAssistantMessage(r) /\ UNCHANGED exceptSto
          \/ UpdateMetadata(r) /\ UNCHANGED exceptSto

SpecStore == Init /\ [][StoreNext]_vars

(***************************************************************************)
(* SpecRegister: concurrent POST /auth/register requests.                  *)
(***************************************************************************)
RegisterNext ==
    \/ RegisterAlone /\ UNCHANGED exceptReg
    \/ \E r \in Registrations :
        \/ VerifyToken(r) /\ UNCHANGED exceptReg
        \/ GetUser(r) /\ UNCHANGED exceptReg
        \/ CountUsers(r) /\ UNCHANGED exceptReg
        \/ CreateUser(r) /\ UNCHANGED exceptReg

SpecRegister == Init /\ [][RegisterNext]_vars

(***************************************************************************)
(* SpecPersonal: personal messages sent while clients with valid tokens    *)
(* connect and leave without sending anything.                             *)
(***************************************************************************)
OpenPersonal(s) == OpenOf(s, {"tok_u1", "tok_u2"}, FirstDevices(s, Devices))

ReceivePersonal(s) == ReceiveOf(s, {}, 0)

PersonalNext ==
    \/ SendPersonalMessage /\ UNCHANGED exceptPm
    \/ \E s \in 1..NumSockets :
          \/ OpenPersonal(s) /\ UNCHANGED exceptWs
          \/ Authenticate(s) /\ UNCHANGED exceptWs
          \/ Accept(s) /\ UNCHANGED exceptWs
          \/ SendConfirmation(s) /\ UNCHANGED exceptWs
          \/ ReceivePersonal(s) /\ UNCHANGED exceptWs
          \/ HandleException(s) /\ UNCHANGED exceptWs

SpecPersonal == Init /\ [][PersonalNext]_vars

(***************************************************************************)
(* SpecSpeech: clients with valid tokens that send audio and synthesize    *)
(* messages.                                                               *)
(***************************************************************************)
SpeechInbound ==
    {Msg(t, p, FALSE, FALSE) : t \in {"audio", "synthesize"}, p \in BOOLEAN}

ReceiveSpeech(s) == ReceiveOf(s, SpeechInbound, MaxMsgs)

SpeechNext ==
    \E s \in 1..NumSockets :
        \/ OpenPersonal(s) /\ UNCHANGED exceptWs
        \/ Authenticate(s) /\ UNCHANGED exceptWs
        \/ Accept(s) /\ UNCHANGED exceptWs
        \/ SendConfirmation(s) /\ UNCHANGED exceptWs
        \/ ReceiveSpeech(s) /\ UNCHANGED exceptWs
        \/ HandleAudioLogged(s) /\ UNCHANGED exceptSp
        \/ HandleSynthesizeLogged(s) /\ UNCHANGED exceptSp
        \/ HandleException(s) /\ UNCHANGED exceptWs

SpecSpeech == Init /\ [][SpeechNext]_vars

(***************************************************************************)
(* SpecIntent: POST /conversation/intent requests.                         *)
(***************************************************************************)
IntentNext == AnalyzeIntent /\ UNCHANGED exceptInt

SpecIntent == Init /\ [][IntentNext]_vars

(***************************************************************************)
(* SpecKeys: lookups, resets and listings of sessions for identifiers      *)
(* with ':'.                                                               *)
(***************************************************************************)
KeysNext ==
    \/ GetOrCreateChat /\ UNCHANGED exceptKey
    \/ ClearKey /\ UNCHANGED exceptKey
    \/ GetActiveConversations /\ UNCHANGED exceptKey

SpecKeys == Init /\ [][KeysNext]_vars

(***************************************************************************)
(* SpecTiering: the compress endpoints and the short-term context.         *)
(***************************************************************************)
TieringNext ==
    \/ SaveShortTerm /\ UNCHANGED exceptTier
    \/ ClearShortTerm /\ UNCHANGED exceptTier
    \/ CompressToLongTerm /\ UNCHANGED exceptTier
    \/ CompressMemory /\ UNCHANGED exceptTier

SpecTiering == Init /\ [][TieringNext]_vars

(***************************************************************************)
(* SpecDelete: delete requests, with a /chat/send request that saves its   *)
(* messages and a send_message call that starts a session running in       *)
(* between.                                                                *)
(***************************************************************************)
DeleteNext ==
    \/ \E k \in Deletes :
          \/ DeleteStart(k)
             /\ UNCHANGED <<exceptDel, history, next_sid, call, made, epoch,
                            req, now, deleted>>
          \/ DeleteFromStore(k)
             /\ UNCHANGED <<exceptDel, history, next_sid, call, made, epoch,
                            req, now, deleted>>
          \/ ClearSession(k)
             /\ UNCHANGED <<exceptDel, history, next_sid, call, made, epoch,
                            req, now, deleted>>
    \/ SendStart(1) /\ UNCHANGED exceptGem
    \/ SendFinish(1) /\ UNCHANGED exceptGem
    \/ RequestStart(1) /\ UNCHANGED exceptSto
    \/ SaveUserMessage(1) /\ UNCHANGED exceptSto
    \/ Generate(1) /\ UNCHANGED exceptSto
    \/ SaveAssistantMessage(1) /\ UNCHANGED exceptSto
    \/ UpdateMetadata(1) /\ UNCHANGED exceptSto

SpecDelete == Init /\ [][DeleteNext]_vars

(***************************************************************************)
(* SpecErrors: the error messages of the websocket handlers.               *)
(***************************************************************************)
ErrorsNext == Fail /\ UNCHANGED exceptErr

SpecErrors == Init /\ [][ErrorsNext]_vars

(***************************************************************************)
(* SpecMemory: requests to the long-term memory endpoints.                 *)
(***************************************************************************)
MemoryNext ==
    \/ CreateMemory /\ UNCHANGED exceptMem
    \/ UpdateMemory /\ UNCHANGED exceptMem
    \/ DeleteMemory /\ UNCHANGED exceptMem

SpecMemory == Init /\ [][MemoryNext]_vars

(***************************************************************************)
(* Properties of the connection registry and of the handler.               *)
(***************************************************************************)
\* the handler of s is or was past manager.connect
WasRegistered(s) ==
    \/ pc[s] \in {"confirm", "receive", "dispatch", "sync", "except"}
    \/ pc[s] = "closed" /\ closed[s] = NoClose

\* no bucket holds two entries for one device
RegistryKeysUnique ==
    \A u \in DOMAIN active_connections :
        \A i, j \in 1..Len(active_connections[u]) :
            active_connections[u][i].device_id =
                active_connections[u][j].device_id => i = j

\* socket s takes the step in which manager.connect registers it
ConnectStep(s) == pc[s] = "connecting" /\ pc'[s] = "confirm"

\* C1: the registry never holds two handles for one (user_id, device_id);
\* a connect for (u, d) leaves exactly one entry for (u, d), which
\* resolves to the new handle, and when (u, d) was held by another handle
\* get_connection_count(u) is what it was (1 when d is the user's only
\* device), else one more.
C1_ConnectReplaces ==
    /\ []RegistryKeysUnique
    /\ [][\A s \in Sockets : ConnectStep(s) =>
            LET u == user_id[s]
                d == device_id[s]
                held == Handles(active_connections, u, d) # {}
                n == get_connection_count(active_connections, u)
                after == active_connections' IN
            /\ Handles(after, u, d) = {s}
            /\ Cardinality({i \in 1..Len(after[u]) :
                              after[u][i].device_id = d}) = 1
            /\ get_connection_count(after, u) = IF held THEN n ELSE n + 1
            /\ \A v \in DOMAIN active_connections \ {u} :
                   v \in DOMAIN after /\ after[v] = active_connections[v]]_vars

\* C1 (witness): two live handlers were registered for the same
\* (user, device); the registry resolves it to one of them and counts 1
C1_Witness ==
    \E s1 \in Sockets, s2 \in Sockets :
        /\ s1 # s2
        /\ pc[s1] \in {"confirm", "receive"} /\ pc[s2] \in {"confirm", "receive"}
        /\ user_id[s1] = user_id[s2] /\ device_id[s1] = device_id[s2]
        /\ disconnect_calls[s1] = 0 /\ disconnect_calls[s2] = 0
        /\ Handles(active_connections, user_id[s2], device_id[s2]) = {s2}
        /\ get_connection_count(active_connections, user_id[s2]) = 1

\* C3: a handler that was registered and has terminated has called
\* manager.disconnect(user_id, device_id), on whichever path it left the
\* try block, and its handle is no longer in the registry.
C3_ExitUnregisters ==
    \A s \in Sockets :
        /\ (pc[s] = "closed" /\ WasRegistered(s)) =>
               /\ disconnect_calls[s] = 1
               /\ s \notin Registered(active_connections)
        /\ pc[s] = "crashed" => trace[s] = << >> /\ nrecv[s] = 0

\* C3 (witness): a handler that handled a message has ended through
\* WebSocketDisconnect and another through the generic except clause
C3_Witness ==
    \E s1 \in Sockets, s2 \in Sockets :
        /\ s1 # s2
        /\ pc[s1] = "closed" /\ nrecv[s1] = 1 /\ disconnect_calls[s1] = 1
        /\ trace[s1][Len(trace[s1])].type # "error"
        /\ pc[s2] = "closed" /\ nrecv[s2] = 1 /\ disconnect_calls[s2] = 1
        /\ trace[s2][Len(trace[s2])].type = "error"

\* the credential of s is present and resolves to the user the handler uses
CredentialOK(s) ==
    /\ ~TokenMissing(token[s])
    /\ get_current_user(token[s]) \in Users
    /\ user_id[s] = get_current_user(token[s])

\* C4: a socket is in the registry, was registered, has read or was sent a
\* message only if its token was present and resolved to a user; a socket
\* whose token is missing or unresolvable is closed (code 4001) or ends
\* without ever being registered or served.
C4_AuthBeforeRegistration ==
    \A s \in Sockets :
        /\ ( \/ s \in Registered(active_connections)
             \/ WasRegistered(s)
             \/ nrecv[s] > 0
             \/ trace[s] # << >>
             \/ \E x \in Sockets : \E i \in 1..Len(trace[x]) :
                    trace[x][i].to = s ) => CredentialOK(s)
        /\ (pc[s] # "idle" /\ get_current_user(token[s]) \notin Users) =>
               /\ pc[s] \in {"authenticating", "closed", "crashed"}
               /\ pc[s] = "closed" => closed[s].code = 4001
        /\ \A u \in DOMAIN active_connections : u \in Users

\* C4 (witness): one socket was refused for a missing token, one for a
\* token that does not resolve, and neither is registered
C4_Witness ==
    \E s1 \in Sockets, s2 \in Sockets :
        /\ pc[s1] = "closed" /\ TokenMissing(token[s1])
        /\ closed[s1].code = 4001
        /\ pc[s2] = "closed" /\ token[s2] \in {"bad", "tok_gone"}
        /\ closed[s2].reason = "Invalid token"
        /\ active_connections = EmptyReg

\* the message types the handler sends while handling an inbound message
Replies(type) ==
    CASE type = "ping" -> {"pong", "error"}
      [] type = "interrupt" -> {"interrupted", "error"}
      [] type = "audio" -> {"transcription", "error"}
      [] type = "synthesize" -> {"audio", "error"}
      [] type = "chat" -> {"response", "sync", "error"}
      [] OTHER -> {"error"}

\* C10: on each connection the inbound messages are numbered in the order
\* they are read, every message the handler sends for inbound message k
\* (to its own socket or, as sync, to another) is sent after k was read
\* and before k + 1 is read, and is a reply to the type of message k.
C10_PerConnectionFifo ==
    \A s \in Sockets :
        LET tr == trace[s] IN
        \A i \in 1..Len(tr) :
            /\ \A j \in 1..i : tr[j].k <= tr[i].k
            /\ tr[i].ev = "recv" =>
                   tr[i].k = Cardinality({j \in 1..i : tr[j].ev = "recv"})
            /\ (tr[i].ev = "send" /\ tr[i].k = 0) =>
                   tr[i].type \in {"connected", "error"}
            /\ (tr[i].ev = "send" /\ tr[i].k > 0) =>
                   \E j \in 1..(i - 1) :
                       /\ tr[j].ev = "recv" /\ tr[j].k = tr[i].k
                       /\ tr[i].type \in Replies(tr[j].type)

\* C10 (witness): a handler has read a chat message, sent the response and
\* a sync to another device, then read a second message and answered it
C10_Witness ==
    \E s \in Sockets :
        /\ Len(trace[s]) = 6
        /\ trace[s][2].ev = "recv" /\ trace[s][2].type = "chat"
        /\ trace[s][3].type = "response"
        /\ trace[s][4].type = "sync"
        /\ trace[s][5].ev = "recv"
        /\ trace[s][6].ev = "send" /\ trace[s][6].k = 2

\* the trace positions at which s delivered a sync for its inbound message k
SyncSends(s, k) ==
    {i \in 1..Len(trace[s]) : trace[s][i].type = "sync" /\ trace[s][i].k = k}

\* the handles of a bucket's entries for devices other than exclude_device
OtherDevices(bucket, exclude_device) ==
    {bucket[i].websocket :
        i \in {j \in 1..Len(bucket) : bucket[j].device_id # exclude_device}}

\* the broadcast_to_user call of s returns (no send and no iterator raised)
BroadcastReturns(s) ==
    /\ bc[s].active /\ ~bc'[s].active
    /\ pc'[s] = "receive"
    /\ trace'[s] = trace[s]

C2_NoConnections ==
    \E s \in Sockets :
        /\ bc[s].active /\ bc[s].pos = 0
        /\ user_id[s] \notin DOMAIN active_connections

(***************************************************************************)
(* Properties of GeminiService and of the streaming response.              *)
(***************************************************************************)
\* the calls that looked a session up
Lookups == {c \in Calls : call[c].chat # 0}

\* the turns a history holds
TurnsOf(h) == {h[i] : i \in DOMAIN h}

\* the streaming calls
Streams == {c \in Calls : call[c].op = "send_message_stream"}

\* C5: per key the session map holds no session or the one session made
\* for that key since its last clear_conversation; a session object is made
\* only by the first lookup of a key (lazily), and two lookups of the same
\* key with no clear_conversation between them, by send_message or by
\* send_message_stream and however the calls interleave, get the same
\* session object
C5_SessionPerKey ==
    /\ \A k \in DOMAIN chat_sessions :
         /\ chat_sessions[k] \in 1..(next_sid - 1)
         /\ made[chat_sessions[k]] = [key |-> k, ep |-> epoch[k]]
    /\ \A sid \in Calls :
         IF sid < next_sid
         THEN \E c \in Lookups : call[c].chat = sid
         ELSE made[sid] = NoMade /\ history[sid] = << >>
    /\ \A s1, s2 \in 1..(next_sid - 1) : made[s1] = made[s2] => s1 = s2
    /\ \A c1, c2 \in Lookups :
         KeyOf(c1) = KeyOf(c2) /\ call[c1].ep = call[c2].ep
             => call[c1].chat = call[c2].chat

\* a send_message and a send_message_stream on one key, the later one
\* seeing the turn of the earlier one in the session they share
C5_Witness ==
    \E c1, c2 \in Lookups :
        /\ call[c1].op # call[c2].op
        /\ KeyOf(c1) = KeyOf(c2)
        /\ call[c1].chat = call[c2].chat
        /\ c1 \in TurnsOf(call[c2].seen)

\* C6: a send that starts after clear_conversation(u, c) runs on a session
\* made after that reset, and the history it finds holds only turns of the
\* same key sent after the reset: nothing from before the reset is visible
C6_ResetHidesHistory ==
    \A c \in Lookups :
        /\ made[call[c].chat] = [key |-> KeyOf(c), ep |-> call[c].ep]
        /\ \A t \in TurnsOf(call[c].seen) :
             KeyOf(t) = KeyOf(c) /\ call[t].ep = call[c].ep

\* a turn on a key, a reset of the key, and a send after it that finds an
\* empty history on another session
C6_Witness ==
    \E c1, c2, c3 \in Calls :
        /\ c1 < c2 /\ c2 < c3
        /\ call[c1].op = "send_message" /\ call[c3].op = "send_message"
        /\ call[c2].op = "clear_conversation"
        /\ KeyOf(c1) = KeyOf(c2) /\ KeyOf(c2) = KeyOf(c3)
        /\ c1 \in TurnsOf(history[call[c1].chat])
        /\ call[c3].ep = call[c1].ep + 1
        /\ call[c3].chat # call[c1].chat
        /\ call[c3].seen = << >>

\* a send_message whose generation call failed
FailedSend(c) ==
    call[c].op = "send_message" /\ call[c].pc = "done" /\ call[c].failed

\* C7: a send_message whose generation call fails returns the fallback
\* text, and its failing leaves the session map as it is: as long as the
\* key is not reset, the key still maps to the session the call used
C7_FailureKeepsSession ==
    /\ [](\A c \in Calls : FailedSend(c) =>
            /\ call[c].result = SendFallback
            /\ epoch[KeyOf(c)] = call[c].ep =>
                 /\ KeyOf(c) \in DOMAIN chat_sessions
                 /\ chat_sessions[KeyOf(c)] = call[c].chat)
    /\ [][\A c \in Calls : ~FailedSend(c) /\ FailedSend(c)'
              => chat_sessions' = chat_sessions]_vars

\* the engine raised in a send_message, and another send on the key has
\* the same session
C7_Witness ==
    \E c1, c2 \in Calls :
        /\ c1 < c2
        /\ FailedSend(c1)
        /\ c1 \notin TurnsOf(history[call[c1].chat])
        /\ call[c2].op = "send_message"
        /\ KeyOf(c2) = KeyOf(c1)
        /\ call[c2].chat = call[c1].chat

\* the chunks of a sequence that are not empty
RECURSIVE NonEmpty(_)
NonEmpty(texts) ==
    IF texts = << >> THEN << >>
    ELSE (IF Head(texts) # "" THEN <<Head(texts)>> ELSE << >>)
             \o NonEmpty(Tail(texts))

\* C8: what send_message_stream has yielded is the non-empty texts the
\* engine delivered, in order, followed by exactly one fallback chunk if
\* the engine failed before or during the streaming; after the fallback
\* chunk the generator yields nothing more and returns when resumed
C8_StreamEndsWithFallback ==
    \A c \in Streams :
        /\ call[c].out = NonEmpty(call[c].got)
               \o (IF call[c].failed THEN <<StreamFallback>> ELSE << >>)
        /\ call[c].failed =>
               call[c].pc \in {"finishing", "saving", "done", "abandoned"}
        /\ call[c].pc = "finishing" => call[c].failed /\ ENABLED StreamDone(c)

\* the engine failed after a content chunk and the response was completed
C8_Witness ==
    \E c \in Streams :
        /\ call[c].failed
        /\ call[c].pc = "done"
        /\ call[c].got = <<"a", "">>
        /\ call[c].out = <<"a", StreamFallback>>

\* C9: in the frames of a /chat/send/stream response a frame with done
\* is the last one and has empty text, every other frame has a non-empty
\* text, the frames before the last are the chunks of the generator, and a
\* response whose generator ended has its done frame
C9_DoneFrameLast ==
    \A c \in Streams :
        LET f == call[c].sse IN
        /\ \A i \in DOMAIN f :
             IF f[i].done THEN i = Len(f) /\ f[i].text = ""
             ELSE f[i].text # ""
        /\ IF call[c].pc \in {"saving", "done"}
           THEN f = [i \in DOMAIN call[c].out |-> sse_chunk(call[c].out[i])]
                        \o <<sse_done>>
           ELSE call[c].pc \in {"await", "streaming", "finishing"}
                    => f = [i \in DOMAIN call[c].out |-> sse_chunk(call[c].out[i])]

\* the engine delivered chunks without text: the response is the done frame
C9_Witness ==
    \E c \in Streams :
        /\ call[c].pc = "done"
        /\ call[c].got = <<"", "">>
        /\ call[c].sse = <<sse_done>>

(***************************************************************************)
(* Properties of the message handlers.                                     *)
(***************************************************************************)
\* the inbound message number k of socket s was of type t
Received(s, k, t) ==
    \E i \in DOMAIN trace[s] :
        trace[s][i] = Ev("recv", t, s, k)

\* the places in the trace of s of the messages of the given types that
\* its handler sent to socket `to` while handling inbound message k
SendsOf(s, k, to, types) ==
    {i \in DOMAIN trace[s] :
        /\ trace[s][i].ev = "send" /\ trace[s][i].to = to
        /\ trace[s][i].k = k /\ trace[s][i].type \in types}

\* the handler of s is in its receive loop: no exception has left the
\* handling of a message
InLoop(s) == pc[s] \in {"receive", "dispatch", "sync"}

\* C11: while the connection stays in its receive loop, a chat message is
\* answered on its connection by at most one message of type response or
\* error, and by exactly one once its handling has returned
C11_OneAnswerPerChat ==
    \A s \in Sockets : \A k \in 1..nrecv[s] :
        InLoop(s) /\ Received(s, k, "chat") =>
            LET n == Cardinality(SendsOf(s, k, s, {"response", "error"})) IN
            /\ n <= 1
            /\ (pc[s] = "receive" \/ k < nrecv[s]) => n = 1

\* the step is the handling, by the handler of s, of a message for which
\* `sel` holds
Dispatches(s, sel) == pc[s] = "dispatch" /\ sel /\ pc'[s] # "dispatch"

\* the step delivers exactly the message of the given type to s, leaves
\* the handler of s in its receive loop, and changes nothing else: the
\* registry, the broadcasts in progress, the session map and the sessions
\* are as before, and no other trace gets a message
OnlyReplies(s, type) ==
    /\ pc' = [pc EXCEPT ![s] = "receive"]
    /\ trace' = [trace EXCEPT ![s] = Append(@, Ev("send", type, s, nrecv[s]))]
    /\ UNCHANGED <<active_connections, bc, disconnect_calls, closed, gemVars>>

\* OnlyReplies for a handler that logs: the log of s is what changes
OnlyRepliesLogged(s, type) ==
    /\ OnlyReplies(s, type)
    /\ \A x \in Sockets \ {s} : speech'[x] = speech[x]

\* the step delivers nothing: the send raised and the handler leaves its
\* receive loop
SendRaised(s) == pc'[s] \in {"except", "closed"} /\ trace' = trace

\* C12: handling a ping sends one pong to the sender and changes nothing
\* else (registry, session map, other connections), unless the send of
\* the pong raises
C12_PingOnlyPongs ==
    [][\A s \in Sockets :
          Dispatches(s, data[s].type = "ping")
              => OnlyReplies(s, "pong") \/ SendRaised(s)]_vars

\* a ping was answered by a pong while another connection was registered
C12_Witness ==
    \E s \in Sockets, x \in Sockets :
        /\ x # s /\ pc[s] = "receive" /\ pc[x] = "receive"
        /\ Len(trace[s]) >= 2
        /\ trace[s][Len(trace[s]) - 1] = Ev("recv", "ping", s, nrecv[s])
        /\ trace[s][Len(trace[s])] = Ev("send", "pong", s, nrecv[s])
        /\ {s, x} \subseteq Registered(active_connections)

\* C13: a message whose type is missing or has no branch in the receive
\* loop gets an error message on its connection, and the handler stays in
\* its receive loop with the registry as it was, unless the send of the
\* error message raises
C13_UnknownNotFatal ==
    [][\A s \in Sockets :
          Dispatches(s, message_type(data[s]) \notin KnownTypes)
              => OnlyReplies(s, "error") \/ SendRaised(s)]_vars

\* a message without a type was answered by an error message, and the
\* next message of the connection was read and answered
C13_Witness ==
    \E s \in Sockets :
        /\ s \in Registered(active_connections) /\ pc[s] = "receive"
        /\ Len(trace[s]) = 5
        /\ trace[s][2] = Ev("recv", None, s, 1)
        /\ trace[s][3] = Ev("send", "error", s, 1)
        /\ trace[s][4] = Ev("recv", "ping", s, 2)
        /\ trace[s][5] = Ev("send", "pong", s, 2)

\* the last event of a trace
Last(tr) == tr[Len(tr)]

\* the step appends event e to the trace of s
Appends(s, e) == trace'[s] = Append(trace[s], e)

\* C14: a broadcast is started only by a chat message that asked for
\* sync_devices, in the step that sent its response to the originating
\* socket; a sync message is sent only by a broadcast in progress, for the
\* chat message that started it, to a socket that is registered for the
\* handler's user under another device than the handler's
C14_SyncOnlyAsAsked ==
    /\ [][\A s \in Sockets : ~bc[s].active /\ bc'[s].active =>
            /\ pc[s] = "dispatch" /\ data[s].type = "chat"
            /\ data[s].sync_devices
            /\ Appends(s, Ev("send", "response", s, nrecv[s]))
            /\ bc'[s].message = nrecv[s]]_vars
    /\ [][\A s \in Sockets :
            Len(trace'[s]) > Len(trace[s]) /\ Last(trace'[s]).type = "sync" =>
                LET x == Last(trace'[s]).to
                    k == Last(trace'[s]).k IN
                /\ Appends(s, Ev("send", "sync", x, k))
                /\ bc[s].active /\ bc[s].message = k
                /\ SendsOf(s, k, s, {"response"}) # {}
                /\ x # s
                /\ user_id[x] = user_id[s] /\ device_id[x] # device_id[s]
                /\ user_id[s] \in DOMAIN active_connections
                /\ \E i \in DOMAIN active_connections[user_id[s]] :
                     active_connections[user_id[s]][i] =
                         [device_id |-> device_id[x], websocket |-> x]]_vars

\* a chat message that asked for sync_devices was answered and then
\* announced to the user's other device, and a chat message that did not
\* ask was answered and not announced
C14_Witness ==
    \E s \in Sockets, x \in Sockets :
        /\ x # s /\ pc[s] = "receive" /\ nrecv[s] = 2
        /\ Received(s, 1, "chat") /\ Received(s, 2, "chat")
        /\ SendsOf(s, 1, s, {"response"}) # {}
        /\ SendsOf(s, 1, x, {"sync"}) # {}
        /\ SendsOf(s, 2, s, {"response"}) # {}
        /\ SendsOf(s, 2, x, {"sync"}) = {}
        /\ {s, x} \subseteq Registered(active_connections)

\* the for loop of the broadcast of s is suspended in a send
InLoopOfBroadcast(s) == bc[s].active /\ bc[s].pos > 0

\* the dict iterator of the broadcast of s raises when it is resumed: the
\* user's bucket was dropped, or its size is not the size at loop entry
IteratorRaises(s) ==
    \/ bc[s].stale
    \/ user_id[s] \notin DOMAIN active_connections
    \/ Len(active_connections[user_id[s]]) # bc[s].di_used

\* the sockets the broadcast of s has sent to that were not registered
\* for the user when the loop was entered
LateTargets(s) ==
    {trace[s][i].to : i \in SyncSends(s, bc[s].message)}
        \ {bc[s].snapshot[j].websocket : j \in DOMAIN bc[s].snapshot}

\* C15: while broadcast_to_user is suspended in a send, a device of the
\* user that connects or disconnects does not make the broadcast fail
\* when it is resumed, and no socket that was not registered at the start
\* of the broadcast gets the message
C15_BroadcastSnapshot ==
    \A s \in Sockets :
        InLoopOfBroadcast(s) => ~IteratorRaises(s) /\ LateTargets(s) = {}

(***************************************************************************)
(* Properties of concurrent exchanges on a session.                        *)
(***************************************************************************)
\* the call is suspended in chat.send_message_async or in the iteration
\* of its streaming response: an exchange with the engine is in flight
InFlight(c) == call[c].pc \in {"await", "streaming"}

\* C16: at most one engine exchange is in flight on a chat session at any
\* time: two calls suspended in an exchange are on different sessions
C16_OneExchangePerSession ==
    \A c1, c2 \in Calls :
        c1 # c2 /\ InFlight(c1) /\ InFlight(c2)
            => call[c1].chat # call[c2].chat

(***************************************************************************)
(* Properties of the error messages.                                       *)
(***************************************************************************)
\* C17: the error field sent for a failure does not depend on the text of
\* the exception or of the provider's error: two failures at the same
\* place are reported with the same error field
C17_ErrorFieldOpaque ==
    \A i, j \in DOMAIN failures :
        failures[i].site = failures[j].site
            => error_fields[i] = error_fields[j]

(***************************************************************************)
(* Properties of the memory endpoints.                                     *)
(***************************************************************************)
\* C18: every call of memory_service.save_memory by create_memory has an
\* importance in 1..10 and one of the five categories
C18_SavedIsValid ==
    save_call # NoSave =>
        save_call.importance \in 1..10 /\ save_call.category \in Categories

\* C19: every stored record has a content that is not empty or blank and
\* an importance in 1..10
C19_StoredIsValid ==
    \A i \in MemoryIds :
        memories[i] # NoMemory =>
            /\ Len(strip(memories[i].content)) > 0
            /\ memories[i].importance \in 1..10

(***************************************************************************)
(* Properties of the chat endpoints.                                       *)
(***************************************************************************)
\* the requests without conversation_id that reached GeminiService
DefaultRequests ==
    {c \in Lookups : call[c].endpoint # None
                        /\ call[c].request_conversation_id = None}

\* C20: a /chat/send or /chat/send/stream request without conversation_id
\* uses the session of key (user_id, "default"), and two such requests of
\* one user share their session
C20_DefaultConversation ==
    /\ \A c \in DefaultRequests :
         KeyOf(c) = session_key(call[c].user_id, "default")
    /\ \A c1, c2 \in DefaultRequests :
         call[c1].user_id = call[c2].user_id
             => call[c1].chat = call[c2].chat

(***************************************************************************)
(* C21.                                                                    *)
(***************************************************************************)
Returned(r) == req[r].pc = "returned"

\* the conversation of request r was not deleted
Kept(r) == <<req[r].user_id, req[r].conversation_id>> \notin deleted

\* the store holds a message of the request's user and conversation with
\* this role, content and timestamp
Holds(r, role, content, timestamp) ==
    \E m \in store :
        /\ m.user_id = req[r].user_id
        /\ m.conversation_id = req[r].conversation_id
        /\ m.role = role
        /\ m.content = content
        /\ m.timestamp = timestamp

\* C21: once a /chat/send request has returned, its user message was saved
\* before the generation call and its response after it, the user
\* timestamp is not later than the response's, and, unless the
\* conversation was deleted, the store holds for that user and
\* conversation a user message with the request text and an assistant
\* message with the returned text.
C21_PairStoredInOrder ==
    \A r \in Requests :
        Returned(r) =>
            /\ req[r].steps =
                   <<"save_user", "generate", "save_assistant", "metadata">>
            /\ req[r].timestamp <= req[r].response_timestamp
            /\ Kept(r) =>
                 /\ Holds(r, "user", req[r].message, req[r].timestamp)
                 /\ Holds(r, "assistant", req[r].response_text,
                          req[r].response_timestamp)

\* a request returned after the clock moved during generation, and its
\* conversation was not deleted
C21_Witness ==
    \E r \in Requests :
        /\ Returned(r)
        /\ Kept(r)
        /\ req[r].timestamp < req[r].response_timestamp

(***************************************************************************)
(* C22.                                                                    *)
(***************************************************************************)
\* C22: the number of registered users never exceeds max_users: a
\* registration that would bring the count above it creates no user and
\* fails with the limit error (403).
C22_UserLimit ==
    Cardinality(users) <= max_users

(***************************************************************************)
(* C23.                                                                    *)
(***************************************************************************)
\* no user of the registry has an empty bucket
NoEmptyBucket ==
    \A u \in DOMAIN active_connections : active_connections[u] # << >>

\* the handler of s calls manager.disconnect in this step
Disconnects(s) == disconnect_calls'[s] = disconnect_calls[s] + 1

\* C23: no user of active_connections maps to an empty device map;
\* disconnecting a user's last device removes the user's bucket, and
\* disconnecting a (user, device) pair that is not registered leaves the
\* registry as it is.
C23_NoEmptyBucket ==
    /\ []NoEmptyBucket
    /\ [][\A s \in Sockets :
            Disconnects(s) =>
              /\ Handles(active_connections, user_id[s], device_id[s]) = {}
                   => active_connections' = active_connections
              /\ (/\ Handles(active_connections, user_id[s], device_id[s])
                        # {}
                  /\ get_connection_count(active_connections, user_id[s]) = 1)
                   => user_id[s] \notin DOMAIN active_connections']_vars

\* two handlers of one (user, device) pair have both called disconnect, the
\* first for the user's last device and the second for a pair that was
\* gone, and the registry is empty
C23_Witness ==
    \E s, x \in Sockets :
        /\ s # x
        /\ user_id[s] = user_id[x]
        /\ device_id[s] = device_id[x]
        /\ disconnect_calls[s] = 1
        /\ disconnect_calls[x] = 1
        /\ DOMAIN active_connections = {}

(***************************************************************************)
(* C24.                                                                    *)
(***************************************************************************)
\* send_personal_message is called in this step
PersonalStep == Len(personal') = Len(personal) + 1

\* C24: send_personal_message to a (user, device) pair that is not
\* registered sends nothing, raises nothing and leaves the registry as it
\* is; to a registered pair it calls send_json once, on the handle
\* registered for the pair and on no other, and leaves the registry as it
\* is.
C24_PersonalMessage ==
    [][PersonalStep =>
         LET sent == Last(personal')
             to == Handles(active_connections, sent.user_id, sent.device_id)
         IN /\ active_connections' = active_connections
            /\ to = {} => sent.called = << >> /\ ~sent.raised
            /\ to # {} => Len(sent.called) = 1 /\ sent.called[1] \in to]_vars

\* a personal message went to one of two devices of a user, and another
\* was addressed to a pair that is not registered
C24_Witness ==
    \E i, j \in 1..Len(personal) :
        /\ personal[i].called # << >>
        /\ ~personal[i].raised
        /\ get_connection_count(active_connections, personal[i].user_id) = 2
        /\ personal[j].called = << >>

(***************************************************************************)
(* C25, C26.                                                               *)
(***************************************************************************)
\* some send_json call of the logged handling returned
Delivered(o) == \E i \in DOMAIN o.sends : o.sends[i].outcome = "ok"

\* the type of the message whose send_json call returned
DeliveredType(o) ==
    o.sends[CHOOSE i \in DOMAIN o.sends : o.sends[i].outcome = "ok"].type

\* what the handling of a speech message, logged as o, does to the
\* connection of s: one message is delivered and the handler is back in its
\* receive loop with the registry as it was, or every send_json call raised
\* (the client is gone) and nothing is delivered
OneMessage(s, o) ==
    /\ Len(o.sends) >= 1
    /\ IF Delivered(o) THEN OnlyRepliesLogged(s, DeliveredType(o))
       ELSE SendRaised(s)

\* C25: the handling of an audio message delivers exactly one message and
\* leaves the connection in its receive loop and the registry as it was
\* (unless the client is gone and every send raises); after a failure
\* (no data, a decode error, an error result or an exception of the
\* transcription, an exception of the classifier) every message sent is an
\* error message; without a failure the transcription message is sent, with
\* the transcribed text and the intent the classifier computes for it.
C25_AudioAnswers ==
    [][\A s \in Sockets :
         Dispatches(s, data[s].type = "audio") =>
            LET o == speech'[s] IN
            /\ OneMessage(s, o)
            /\ o.cause # "none" =>
                 \A i \in DOMAIN o.sends : o.sends[i].type = "error"
            /\ o.cause = "none" =>
                 /\ o.sends[1].type = "transcription"
                 /\ \A i \in DOMAIN o.sends :
                      o.sends[i].type \in {"transcription", "error"}
                 /\ o.message.text = o.text
                 /\ o.message.intent = analyze_intent(o.text).type]_vars

\* the answer to the audio message last handled on s was delivered and the
\* handler is back in its receive loop
Answered(s, type) ==
    /\ speech[s].type = type
    /\ pc[s] = "receive"
    /\ Delivered(speech[s])

\* one connection got the error message for audio that failed to decode,
\* another its transcription with the intent of a command
C25_Witness ==
    \E s, x \in Sockets :
        /\ Answered(s, "audio")
        /\ speech[s].cause = "decode"
        /\ Last(trace[s]).type = "error"
        /\ Answered(x, "audio")
        /\ speech[x].cause = "none"
        /\ speech[x].message.intent = "command"
        /\ Last(trace[x]).type = "transcription"

\* C26: the handling of a synthesize message delivers exactly one message
\* and leaves the connection open, in its receive loop (unless the client
\* is gone and every send raises); after a failure (no text, an unknown
\* engine, an error result or an exception of the synthesis) every message
\* sent is an error message, and an audio message is sent only for a
\* result without an error.
C26_SynthesizeAnswers ==
    [][\A s \in Sockets :
         Dispatches(s, data[s].type = "synthesize") =>
            LET o == speech'[s] IN
            /\ OneMessage(s, o)
            /\ o.cause # "none" =>
                 \A i \in DOMAIN o.sends : o.sends[i].type = "error"
            /\ o.cause = "none" =>
                 /\ o.sends[1].type = "audio"
                 /\ \A i \in DOMAIN o.sends :
                      o.sends[i].type \in {"audio", "error"}]_vars

\* one connection got the error message for an unknown engine, another the
\* error message of a synthesis result, and both are still open
C26_Witness ==
    \E s, x \in Sockets :
        /\ Answered(s, "synthesize")
        /\ speech[s].cause = "engine"
        /\ Last(trace[s]).type = "error"
        /\ Answered(x, "synthesize")
        /\ speech[x].cause = "error_result"
        /\ Last(trace[x]).type = "error"
        /\ s \in Registered(active_connections)
        /\ x \in Registered(active_connections)

(***************************************************************************)
(* C30.                                                                    *)
(***************************************************************************)
\* the rule sets the normalized message matches, in the order they are
\* tried, the default last
Matching(message) ==
    LET words == normalize(message) IN
    SelectSeq(<<"acknowledgment", "command", "interruption", "conversation">>,
              LAMBDA set :
                  CASE set = "acknowledgment" -> matches_acknowledgment(words)
                    [] set = "command" -> matches_command(words)
                    [] set = "interruption" -> matches_interruption(words)
                    [] OTHER -> TRUE)

\* C30: the classifier tries its rule sets in the order acknowledgment,
\* command, interruption, default, and the first that matches decides:
\* every text of the acknowledgment set is classified acknowledgment, and
\* so is a text that matches the acknowledgment set and also the command
\* or the interruption set.
C30_FirstRuleSetWins ==
    intent_status = 200 =>
        /\ intent.type = Matching(intent_message)[1]
        /\ normalize(intent_message) \in AcknowledgmentPhrases =>
             intent.type = "acknowledgment" /\ intent.is_acknowledgment
        /\ intent.is_acknowledgment = (intent.type = "acknowledgment")
        /\ intent.is_command = (intent.type = "command")
        /\ intent.is_interruption = (intent.type = "interruption")

\* a text that matches the acknowledgment, the command and the
\* interruption set was classified acknowledgment
C30_Witness ==
    /\ intent_status = 200
    /\ Matching(intent_message) =
           <<"acknowledgment", "command", "interruption", "conversation">>
    /\ intent.type = "acknowledgment"

(***************************************************************************)
(* C27.                                                                    *)
(***************************************************************************)
\* the key has a session: ACTIVE, as opposed to ABSENT
Active(sessions, k) == k \in DOMAIN sessions

\* call c starts in this step, as one of the operations ops on key k
StartsOn(c, ops, k) ==
    /\ call[c].pc = "idle"
    /\ call'[c].op \in ops
    /\ session_key(call'[c].user_id, call'[c].conversation_id) = k

\* a send_message or send_message_stream fails in this step
Fails(c) == ~call[c].failed /\ call'[c].failed

\* C27: a key has a session or has none; it gets one only in a step in
\* which a send_message or send_message_stream starts on that key, loses
\* it only in a step in which clear_conversation is called on that key,
\* and keeps the same session in every other step; the step in which a
\* send fails changes no key's state.
C27_AbsentActive ==
    [][\A k \in Keys :
         /\ (~Active(chat_sessions, k) /\ Active(chat_sessions', k)) =>
              \E c \in Calls :
                  StartsOn(c, {"send_message", "send_message_stream"}, k)
         /\ (Active(chat_sessions, k) /\ ~Active(chat_sessions', k)) =>
              \E c \in Calls : StartsOn(c, {"clear_conversation"}, k)
         /\ (Active(chat_sessions, k) /\ Active(chat_sessions', k)) =>
              chat_sessions'[k] = chat_sessions[k]
         /\ (\E c \in Calls : Fails(c)) =>
              Active(chat_sessions', k) = Active(chat_sessions, k)]_vars

\* a key went from ABSENT to ACTIVE and back to ABSENT while another key
\* of the same user stayed ACTIVE, and a send on that other key failed
C27_Witness ==
    \E c1, c2, c3 \in Calls :
        /\ c1 < c2 /\ c1 < c3
        /\ call[c1].op = "send_message" /\ call[c1].failed
        /\ call[c2].op \in {"send_message", "send_message_stream"}
        /\ call[c3].op = "clear_conversation"
        /\ call[c2].user_id = call[c1].user_id
        /\ KeyOf(c3) = KeyOf(c2)
        /\ KeyOf(c2) # KeyOf(c1)
        /\ made[call[c2].chat].key = KeyOf(c2)
        /\ ~Active(chat_sessions, KeyOf(c2))
        /\ Active(chat_sessions, KeyOf(c1))

(***************************************************************************)
(* C28, C29.                                                               *)
(***************************************************************************)
\* the pair of the last lookup, an absent conversation id being "default"
ResolvedPair == <<resolved.user_id, or_default(resolved.conversation_id)>>

\* the sessions the step removes from the map
Removed ==
    {chat_sessions[k] : k \in DOMAIN chat_sessions \ DOMAIN chat_sessions'}

\* C28: sessions are isolated per (user_id, conversation_id), an absent
\* conversation id counting as "default", also for identifiers that
\* contain ':': a lookup returns a session that was started for its own
\* pair, and clear_conversation removes no session started for another
\* pair.
C28_SessionsIsolated ==
    /\ [](resolved.chat # 0 => owner[resolved.chat] = ResolvedPair)
    /\ [][\A sid \in Removed : owner[sid] = cleared']_vars

\* C29: get_active_conversations(u) returns exactly the conversation ids c
\* for which the key of (u, c) has a session, and leaves the session map
\* as it is.
C29_ActiveConversations ==
    [][active' # active =>
         /\ chat_sessions' = chat_sessions
         /\ active'.ids =
              {Chars(or_default(cid)) :
                  cid \in {x \in KeyConvIds :
                             session_key(active'.user_id, x)
                                 \in DOMAIN chat_sessions}}]_vars

(***************************************************************************)
(* C31.                                                                    *)
(***************************************************************************)
IntentTypes == {"acknowledgment", "command", "interruption", "conversation"}

\* the request was answered with a classification
Classified == intent_status = 200

\* C31: the result of the classifier is consistent for every text: each of
\* is_acknowledgment, is_command and is_interruption is true exactly when
\* type is acknowledgment, command, interruption (so at most one of them is
\* true), and a text that matches no rule set has type conversation and
\* the three flags false.
C31_FlagsFollowType ==
    Classified =>
        /\ intent.type \in IntentTypes
        /\ intent.is_acknowledgment <=> intent.type = "acknowledgment"
        /\ intent.is_command <=> intent.type = "command"
        /\ intent.is_interruption <=> intent.type = "interruption"
        /\ Cardinality({f \in {"is_acknowledgment", "is_command",
                               "is_interruption"} : intent[f]}) <= 1
        /\ Matching(intent_message) = <<"conversation">> =>
               /\ intent.type = "conversation"
               /\ ~intent.is_acknowledgment
               /\ ~intent.is_command
               /\ ~intent.is_interruption

\* a text of no rule set was classified
C31_Witness ==
    /\ Classified
    /\ Matching(intent_message) = <<"conversation">>
    /\ intent.type = "conversation"

(***************************************************************************)
(* C32.                                                                    *)
(***************************************************************************)
\* the step is a compress request whose fetch found no recent message
CompressesEmpty ==
    /\ compression'.n = compression.n + 1
    /\ compression'.fetched
    /\ compression'.window = 0

\* C32: compress for a user with no recent short-term message returns a
\* result that is no error and has facts_saved = 0, writes nothing to the
\* durable store and does not call the generation engine; both compress
\* endpoints answer with that result, not with status 500.
C32_EmptyWindowNoOp ==
    [][CompressesEmpty =>
         /\ compression'.status_code = 200
         /\ compression'.result.error = Absent
         /\ compression'.result.facts_saved = 0
         /\ long_term' = long_term
         /\ generations' = generations]_vars

\* an empty window was compressed after an earlier request had written
\* facts
C32_Witness ==
    /\ compression.n > 1
    /\ compression.fetched
    /\ compression.window = 0
    /\ long_term # << >>
    /\ compression.endpoint = "/conversation/compress-memory"

(***************************************************************************)
(* C33.                                                                    *)
(***************************************************************************)
\* the connection was refused: closed by the handler before registration
Refused(s) == pc[s] = "closed" /\ closed[s] # NoClose

\* C33: a connection refused for a missing credential and a connection
\* refused for an invalid credential are closed with different close
\* codes.
C33_DistinctCloseCodes ==
    \A s1 \in Sockets, s2 \in Sockets :
        ( /\ Refused(s1) /\ TokenMissing(token[s1])
          /\ Refused(s2) /\ ~TokenMissing(token[s2]) ) =>
            closed[s1].code # closed[s2].code

(***************************************************************************)
(* C34.                                                                    *)
(***************************************************************************)
\* the handler of s stays in its receive loop over the step
StaysInLoop(s) == InLoop(s) /\ pc'[s] \in {"receive", "dispatch", "sync"}

\* C34: when the registry entry of (u, d) was replaced by a newer
\* connection B, the termination of the handler of the replaced
\* connection A does not unregister B: the entry of (u, d) still resolves
\* to the handle of B while the handler of B is in its receive loop.
C34_ReplacedExitKeepsNewer ==
    [][\A a \in Sockets, b \in Sockets :
         ( /\ a # b
           /\ user_id[a] = user_id[b] /\ device_id[a] = device_id[b]
           /\ Disconnects(a)
           /\ StaysInLoop(b)
           /\ Handles(active_connections, user_id[b], device_id[b]) = {b} )
         => Handles(active_connections', user_id[b], device_id[b]) = {b}]_vars

(***************************************************************************)
(* C35.                                                                    *)
(***************************************************************************)
\* event i of the trace of s is the confirmation sent to s
IsConfirmation(s, i) ==
    /\ trace[s][i].ev = "send"
    /\ trace[s][i].type = "connected"
    /\ trace[s][i].to = s

\* the confirmation was sent to s, as the first event of its trace
Confirmed(s) == trace[s] # << >> /\ IsConfirmation(s, 1)

\* the handler of s sends the confirmation in this step
Confirms(s) ==
    /\ Len(trace'[s]) = Len(trace[s]) + 1
    /\ trace'[s][Len(trace'[s])].type = "connected"

\* C35: on every accepted connection the first message the handler sends
\* is `connected`; it is sent after the connection was entered in the
\* registry, and no inbound message is read before it was sent; when
\* sending it fails, the handler reads nothing and ends with the
\* connection unregistered.
C35_ConfirmationFirst ==
    /\ [](\A s \in Sockets :
            /\ \A i \in 1..Len(trace[s]) : IsConfirmation(s, i) => i = 1
            /\ (nrecv[s] > 0 \/ InLoop(s)) => Confirmed(s)
            /\ (WasRegistered(s) /\ pc[s] = "closed" /\ ~Confirmed(s)) =>
                   /\ nrecv[s] = 0
                   /\ disconnect_calls[s] = 1
                   /\ s \notin Registered(active_connections))
    /\ [][\A s \in Sockets :
            /\ Confirms(s) => pc[s] = "confirm" /\ trace[s] = << >>
            /\ (pc[s] = "connecting" /\ pc'[s] = "confirm") =>
                   Handles(active_connections', user_id[s], device_id[s])
                       = {s}]_vars

\* one connection was confirmed and has read a message; on another the
\* send of the confirmation failed and the handler ended
C35_Witness ==
    \E s1 \in Sockets, s2 \in Sockets :
        /\ Confirmed(s1) /\ nrecv[s1] = 1
        /\ WasRegistered(s2) /\ pc[s2] = "closed" /\ trace[s2] = << >>
        /\ disconnect_calls[s2] = 1
        /\ s2 \notin Registered(active_connections)

(***************************************************************************)
(* C36, C37.                                                               *)
(***************************************************************************)
\* the texts of the frames, concatenated in the order of the frames
RECURSIVE Concatenated(_)
Concatenated(frames) ==
    IF frames = << >> THEN ""
    ELSE Head(frames).text \o Concatenated(Tail(frames))

\* call c is a request to /chat/send/stream whose user message was saved
StreamRequest(c) ==
    /\ call[c].endpoint = "/chat/send/stream"
    /\ call[c].op = "send_message_stream"

\* C36: the assistant message persisted for a /chat/send/stream request has
\* as content the concatenation, in the order they were emitted, of the
\* texts of the chunks sent to the client for the request, and it is
\* persisted only after the chunk with done = true was emitted.
C36_SavedIsStreamed ==
    /\ [](\A c \in Calls : (StreamRequest(c) /\ call[c].saved) =>
            /\ call[c].content = Concatenated(call[c].sse)
            /\ call[c].sse # << >>
            /\ call[c].sse[Len(call[c].sse)] = sse_done)
    /\ [][\A c \in Calls :
            (StreamRequest(c) /\ ~call[c].saved /\ call'[c].saved) =>
                /\ call[c].sse # << >>
                /\ call[c].sse[Len(call[c].sse)].done
                /\ call'[c].sse = call[c].sse]_vars

\* a response of a chunk followed by the fallback chunk was saved
C36_Witness ==
    \E c \in Calls :
        /\ StreamRequest(c) /\ call[c].saved
        /\ call[c].content = "a" \o StreamFallback
        /\ Len(call[c].sse) = 3

\* the request of call c is over: generate() ran to its end, or was closed
Finished(c) == call[c].pc \in {"done", "abandoned"}

\* the store raised when the assistant message was saved
SaveRaised(c) == call[c].pc = "done" /\ ~call[c].saved

\* C37: every user message persisted by /chat/send/stream is followed by a
\* persisted assistant message of the same conversation once the request
\* is over, also when the client stopped consuming the stream before the
\* done chunk or the upstream stream failed (a store that refuses the
\* assistant message set aside).
C37_AssistantMessageFollows ==
    \A c \in Calls :
        (StreamRequest(c) /\ Finished(c) /\ ~SaveRaised(c)) => call[c].saved

(***************************************************************************)
(* C38.                                                                    *)
(***************************************************************************)
\* the register_user calls that wrote the user record of identity g
Creators(g) ==
    {r \in Registrations : reg[r].sub = g /\ reg[r].pc = "registered"}

\* C38: a user is created at most once: of the concurrent register_user
\* calls that carry one Google identity at most one creates the user
\* record, and every other one that has ended failed with "User already
\* registered", status 409.
C38_CreatedOnce ==
    \A g \in Identities :
        /\ Cardinality(Creators(g)) <= 1
        /\ \A r \in Registrations :
               ( /\ reg[r].sub = g
                 /\ reg[r].pc \in {"registered", "failed"}
                 /\ Creators(g) \ {r} # {} ) =>
                   /\ reg[r].detail = "User already registered"
                   /\ reg[r].status = 409

(***************************************************************************)
(* C39.                                                                    *)
(***************************************************************************)
\* delete request k moves from one position to another in this step
DeleteStep(k, from, to) == del_req[k].pc = from /\ del_req'[k].pc = to

\* the session key of delete request k
DeleteKey(k) == session_key(del_req[k].user_id, del_req[k].conversation_id)

\* C39: delete_conversation removes the messages of the conversation from
\* the store and then the dialogue session of (user, conversation_id), and
\* answers 200 only after both; when the deletion in the store fails, the
\* request fails and the session map is left as it is, so the session of
\* the key stays active.
C39_DeleteClearsBoth ==
    /\ [](\A k \in Deletes :
            /\ del_req[k].pc = "done" <=> del_req[k].status = 200
            /\ del_req[k].pc \in {"clear", "done"} => del_req[k].stored)
    /\ [][\A k \in Deletes :
            /\ DeleteStep(k, "delete", "clear") =>
                   /\ messages_of(store', del_req[k].user_id,
                                  del_req[k].conversation_id) = {}
                   /\ chat_sessions' = chat_sessions
            /\ DeleteStep(k, "clear", "done") =>
                   /\ DeleteKey(k) \notin DOMAIN chat_sessions'
                   /\ \A key \in DOMAIN chat_sessions \ {DeleteKey(k)} :
                          /\ key \in DOMAIN chat_sessions'
                          /\ chat_sessions'[key] = chat_sessions[key]
                   /\ store' = store
            /\ DeleteStep(k, "delete", "failed") =>
                   /\ del_req'[k].status = 500
                   /\ chat_sessions' = chat_sessions
                   /\ store' = store]_vars

\* one request deleted messages and a session of its conversation; the
\* deletion of another failed in the store and left the session of its
\* key in the session map
C39_Witness ==
    \E k1 \in Deletes, k2 \in Deletes :
        /\ del_req[k1].pc = "done"
        /\ del_req[k1].removed > 0 /\ del_req[k1].session # 0
        /\ del_req[k2].pc = "failed" /\ del_req[k2].status = 500
        /\ del_req[k2].session # 0

====
